---- MODULE Spec2Model ----
(***************************************************************************)
(* Receipt matching engine (src/ocr/matching): normalizers, fuzzy          *)
(* similarity, candidate generation, multi-criterion scoring, confidence   *)
(* aggregation and the threshold decision of match_receipt.                *)
(*                                                                         *)
(* Representation.  A Python str is a sequence of characters; a character  *)
(* is a one-character TLA+ string, and a non-ASCII character is written    *)
(* by its code point ("U+0131" is the dotless i).  A Python float is an    *)
(* exact rational <<numerator, denominator>> in lowest terms with a        *)
(* positive denominator; None is NULL.                                     *)
(***************************************************************************)
EXTENDS Integers, Sequences, FiniteSets, TLC

\* None.  TLC refuses to compare values of different kinds (a record or an
\* integer with a string), so "x is None" is decided on the printed value.
NULL == "None"
IsNone(v) == ToString(v) = ToString(NULL)

(***************************************************************************)
(* Exact rationals standing for Python floats.                             *)
(***************************************************************************)
Abs(n) == IF n < 0 THEN -n ELSE n

RECURSIVE GCD(_, _)
GCD(a, b) == IF b = 0 THEN a ELSE GCD(b, a % b)

Reduce(n, d, g) == IF d < 0 THEN <<(-n) \div g, (-d) \div g>> ELSE <<n \div g, d \div g>>
Rat(n, d) == IF n = 0 THEN <<0, 1>> ELSE Reduce(n, d, GCD(Abs(n), Abs(d)))

R(n) == <<n, 1>>
RAddG(a, b, g) == Rat(a[1] * (b[2] \div g) + b[1] * (a[2] \div g), (a[2] \div g) * b[2])
RAdd(a, b) == RAddG(a, b, GCD(a[2], b[2]))
RNeg(a) == <<-a[1], a[2]>>
RSub(a, b) == RAdd(a, RNeg(b))
RMulG(a, b, g, h) == Rat((a[1] \div g) * (b[1] \div h), (a[2] \div h) * (b[2] \div g))
RMul(a, b) == IF a[1] = 0 \/ b[1] = 0 THEN <<0, 1>>
              ELSE RMulG(a, b, GCD(Abs(a[1]), b[2]), GCD(Abs(b[1]), a[2]))
RInv(a) == IF a[1] < 0 THEN <<-a[2], -a[1]>> ELSE <<a[2], a[1]>>
RDiv(a, b) == RMul(a, RInv(b))
RAbs(a) == <<Abs(a[1]), a[2]>>
RLeqG(a, b, g) == a[1] * (b[2] \div g) <= b[1] * (a[2] \div g)
RLeq(a, b) == RLeqG(a, b, GCD(a[2], b[2]))
RLtG(a, b, g) == a[1] * (b[2] \div g) < b[1] * (a[2] \div g)
RLt(a, b) == RLtG(a, b, GCD(a[2], b[2]))
RGeq(a, b) == RLeq(b, a)
RGt(a, b) == RLt(b, a)

Min2(a, b) == IF a <= b THEN a ELSE b
Max2(a, b) == IF a >= b THEN a ELSE b

(***************************************************************************)
(* Characters and the str methods the engine uses.                         *)
(***************************************************************************)
LowerLetters == <<"a","b","c","d","e","f","g","h","i","j","k","l","m",
                  "n","o","p","q","r","s","t","u","v","w","x","y","z">>
UpperLetters == <<"A","B","C","D","E","F","G","H","I","J","K","L","M",
                  "N","O","P","Q","R","S","T","U","V","W","X","Y","Z">>
AsciiLower == {LowerLetters[i] : i \in 1..26}
AsciiUpper == {UpperLetters[i] : i \in 1..26}
Digits == {"0","1","2","3","4","5","6","7","8","9"}
Whitespace == {" ", "\t", "\n"}

\* lower-case / upper-case pairs outside ASCII: i-dotless, s-cedilla,
\* g-breve, u-diaeresis, o-diaeresis, c-cedilla; U+0130 is capital dotted I
TrLower == <<"U+0131", "U+015F", "U+011F", "U+00FC", "U+00F6", "U+00E7">>
TrUpper == <<"I",      "U+015E", "U+011E", "U+00DC", "U+00D6", "U+00C7">>
TrLetters == {TrLower[i] : i \in 1..6} \cup {TrUpper[i] : i \in 2..6} \cup {"U+0130"}
WordChars == AsciiLower \cup AsciiUpper \cup Digits \cup TrLetters \cup {"_"}

\* str.upper() and str.lower(), character by character
UpperChar(c) ==
    IF c \in AsciiLower THEN UpperLetters[CHOOSE i \in 1..26 : LowerLetters[i] = c]
    ELSE IF \E i \in 1..6 : TrLower[i] = c THEN TrUpper[CHOOSE i \in 1..6 : TrLower[i] = c]
    ELSE c
LowerChar(c) ==
    IF c \in AsciiUpper THEN LowerLetters[CHOOSE i \in 1..26 : UpperLetters[i] = c]
    ELSE IF \E i \in 2..6 : TrUpper[i] = c THEN TrLower[CHOOSE i \in 2..6 : TrUpper[i] = c]
    ELSE c
Upper(s) == [i \in 1..Len(s) |-> UpperChar(s[i])]
Lower(s) == [i \in 1..Len(s) |-> LowerChar(s[i])]

\* s[i:j] of Python with 0 <= i, j <= len(s) (0-based, end exclusive)
Slice(s, i, j) == IF j <= i THEN <<>> ELSE SubSeq(s, i + 1, j)
\* s[-n:]
LastN(s, n) == IF Len(s) <= n THEN s ELSE SubSeq(s, Len(s) - n + 1, Len(s))

\* s.startswith(lit, i) with a 0-based i
StartsWithAt(s, i, lit) ==
    /\ i + Len(lit) <= Len(s)
    /\ \A k \in 1..Len(lit) : s[i + k] = lit[k]

\* str.replace(old, new): non-overlapping occurrences, left to right
RECURSIVE ReplaceFrom(_, _, _, _)
ReplaceFrom(s, i, old, new) ==
    IF i >= Len(s) THEN <<>>
    ELSE IF StartsWithAt(s, i, old) THEN new \o ReplaceFrom(s, i + Len(old), old, new)
    ELSE <<s[i + 1]>> \o ReplaceFrom(s, i + 1, old, new)
Replace(s, old, new) == ReplaceFrom(s, 0, old, new)

\* str.count(c) and "c in s" for a single character c
Count(s, c) == Cardinality({i \in 1..Len(s) : s[i] = c})
Contains(s, c) == \E i \in 1..Len(s) : s[i] = c

\* str.strip()
RECURSIVE LStrip(_)
LStrip(s) == IF s # <<>> /\ Head(s) \in Whitespace THEN LStrip(Tail(s)) ELSE s
RECURSIVE RStrip(_)
RStrip(s) ==
    IF s # <<>> /\ s[Len(s)] \in Whitespace THEN RStrip(SubSeq(s, 1, Len(s) - 1)) ELSE s
Strip(s) == RStrip(LStrip(s))

\* index (0-based) one past the maximal run of characters of set cs starting at i
RECURSIVE RunEnd(_, _, _)
RunEnd(s, i, cs) == IF i < Len(s) /\ s[i + 1] \in cs THEN RunEnd(s, i + 1, cs) ELSE i

\* "not x" of Python for an optional str: None and "" are falsy
Falsy(s) == IsNone(s) \/ s = <<>>

(***************************************************************************)
(* normalizers.py                                                          *)
(***************************************************************************)
\* lines 39-47: O -> 0 and I/l -> 1 after the country code and check digits
FixAccountPart(normalized) ==
    IF Len(normalized) >= 4
    THEN Slice(normalized, 0, 2) \o Slice(normalized, 2, 4)
         \o Replace(Replace(Replace(Slice(normalized, 4, Len(normalized)),
                 <<"O">>, <<"0">>), <<"I">>, <<"1">>), <<"l">>, <<"1">>)
    ELSE normalized

\* a variant that converts to upper case after the account part is fixed
NormalizeIbanUpperLast(iban) == IF Falsy(iban) THEN <<>> ELSE Upper(FixAccountPart(Replace(Replace(iban, <<" ">>, <<>>), <<"-">>, <<>>)))

normalize_iban(iban) ==
    IF Falsy(iban) THEN <<>>
    ELSE FixAccountPart(Upper(Replace(Replace(iban, <<" ">>, <<>>), <<"-">>, <<>>)))

\* the substitution table of normalize_name, in dict order
turkish_chars ==
    << <<"U+0131", "I">>, <<"U+0130", "I">>, <<"U+015F", "S">>, <<"U+015E", "S">>,
       <<"U+011F", "G">>, <<"U+011E", "G">>, <<"U+00FC", "U">>, <<"U+00DC", "U">>,
       <<"U+00F6", "O">>, <<"U+00D6", "O">>, <<"U+00E7", "C">>, <<"U+00C7", "C">> >>

RECURSIVE ReplaceTable(_, _, _)
ReplaceTable(s, table, k) ==
    IF k > Len(table) THEN s
    ELSE ReplaceTable(Replace(s, <<table[k][1]>>, <<table[k][2]>>), table, k + 1)

\* re.sub(r"\s+", " ", s)
RECURSIVE CollapseWhitespace(_, _)
CollapseWhitespace(s, i) ==
    IF i >= Len(s) THEN <<>>
    ELSE IF s[i + 1] \in Whitespace
         THEN <<" ">> \o CollapseWhitespace(s, RunEnd(s, i, Whitespace))
         ELSE <<s[i + 1]>> \o CollapseWhitespace(s, i + 1)

normalize_name(name) ==
    IF Falsy(name) THEN <<>>
    ELSE Strip(CollapseWhitespace(ReplaceTable(Upper(name), turkish_chars, 1), 0))

(***************************************************************************)
(* fuzzy.py                                                                *)
(***************************************************************************)
Min3(a, b, c) == Min2(a, Min2(b, c))

\* the inner loop of levenshtein_distance: one row of the table
RECURSIVE LevRow(_, _, _, _)
LevRow(previous_row, c1, s2, current_row) ==
    IF Len(current_row) = Len(s2) + 1 THEN current_row
    ELSE LET j == Len(current_row)
             insertions == previous_row[j + 1] + 1
             deletions == current_row[j] + 1
             substitutions == previous_row[j] + (IF c1 # s2[j] THEN 1 ELSE 0)
         IN  LevRow(previous_row, c1, s2,
                    Append(current_row, Min3(insertions, deletions, substitutions)))

RECURSIVE LevRows(_, _, _, _)
LevRows(s1, s2, i, previous_row) ==
    \* (a row is never empty: reading it here computes the table a row at a time)
    IF i >= Len(s1) \/ Len(previous_row) = 0 THEN previous_row
    ELSE LevRows(s1, s2, i + 1, LevRow(previous_row, s1[i + 1], s2, <<i + 1>>))

\* a variant that only compares the lengths
LengthDifference(s1, s2) == Abs(Len(s1) - Len(s2))

RECURSIVE levenshtein_distance(_, _)
levenshtein_distance(s1, s2) ==
    IF Len(s1) < Len(s2) THEN levenshtein_distance(s2, s1)
    ELSE IF Len(s2) = 0 THEN Len(s1)
    ELSE LevRows(s1, s2, 0, [k \in 1..(Len(s2) + 1) |-> k - 1])[Len(s2) + 1]

levenshtein_similarity(s1, s2) ==
    IF s1 = <<>> /\ s2 = <<>> THEN R(1)
    ELSE IF s1 = <<>> \/ s2 = <<>> THEN R(0)
    ELSE RSub(R(1), Rat(levenshtein_distance(s1, s2), Max2(Len(s1), Len(s2))))

get_ngrams(text, n) ==
    IF Len(text) < n THEN {text}
    ELSE {Slice(text, i, i + n) : i \in 0..(Len(text) - n)}

\* |set1 & set2| / |set1 | set2|, and the value for an empty union
Jaccard(set1, set2, empty) ==
    IF set1 \cup set2 = {} THEN empty
    ELSE Rat(Cardinality(set1 \cap set2), Cardinality(set1 \cup set2))

jaccard_similarity(s1, s2) ==
    IF s1 = <<>> /\ s2 = <<>> THEN R(1)
    ELSE IF s1 = <<>> \/ s2 = <<>> THEN R(0)
    ELSE Jaccard(get_ngrams(Lower(s1), 2), get_ngrams(Lower(s2), 2), R(1))

\* a variant without the test for an empty name
NameSimilarityUnguarded(name1, name2) == RAdd(RMul(levenshtein_similarity(name1, name2), Rat(6, 10)), RMul(jaccard_similarity(name1, name2), Rat(4, 10)))

name_similarity(name1, name2) ==
    IF name1 = <<>> \/ name2 = <<>> THEN R(0)
    ELSE RAdd(RMul(levenshtein_similarity(name1, name2), Rat(6, 10)),
              RMul(jaccard_similarity(name1, name2), Rat(4, 10)))

\* float(text) for a signed decimal literal (digits with at most one "."):
\* the value as a rational, or NULL where float() raises ValueError.
\* Exponents, underscores, "inf" and "nan" are not drawn by the inputs.
RECURSIVE DigitsValue(_, _)
DigitsValue(s, acc) ==
    IF s = <<>> THEN acc
    ELSE DigitsValue(Tail(s), 10 * acc + (CHOOSE d \in 0..9 : ToString(d) = Head(s)))

RECURSIVE Pow10(_)
Pow10(n) == IF n = 0 THEN 1 ELSE 10 * Pow10(n - 1)

ParseBody(body, sign) ==
    IF /\ \E i \in 1..Len(body) : body[i] \in Digits
       /\ \A i \in 1..Len(body) : body[i] \in Digits \cup {"."}
       /\ Count(body, ".") <= 1
    THEN Rat(sign * DigitsValue(SelectSeq(body, LAMBDA c : c # "."), 0),
             Pow10(IF Contains(body, ".")
                   THEN Len(body) - (CHOOSE i \in 1..Len(body) : body[i] = ".")
                   ELSE 0))
    ELSE NULL

ParseSigned(t) ==
    IF t # <<>> /\ Head(t) \in {"+", "-"}
    THEN ParseBody(Tail(t), IF Head(t) = "-" THEN -1 ELSE 1)
    ELSE ParseBody(t, 1)

ParseFloat(text) == ParseSigned(Strip(text))

\* 0-based index of the first / last occurrence of character c (c occurs in s)
FirstIndex(s, c) == (CHOOSE i \in 1..Len(s) : s[i] = c /\ \A k \in 1..(i - 1) : s[k] # c) - 1
LastIndex(s, c) == (CHOOSE i \in 1..Len(s) : s[i] = c /\ \A k \in (i + 1)..Len(s) : s[k] # c) - 1

\* s.split(c)[1] for a character c that occurs in s
FirstPart(s, c) == IF Contains(s, c) THEN Slice(s, 0, FirstIndex(s, c)) ELSE s
SplitSecond(s, c) == FirstPart(Slice(s, FirstIndex(s, c) + 1, Len(s)), c)

\* StandardizeSeparators that always reads "," as the thousands separator
ThousandsCommas(cleaned) == Replace(cleaned, <<",">>, <<>>)

\* a variant that takes every separator for a decimal point
DecimalPoints(cleaned) == Replace(cleaned, <<",">>, <<".">>)

\* lines 130-157: decide which of "," and "." is the decimal separator
StandardizeSeparators(cleaned) ==
    IF Contains(cleaned, ",") /\ Contains(cleaned, ".")
    THEN IF Len(cleaned) - (LastIndex(cleaned, ",") + 1) <= 2
         THEN Replace(Slice(cleaned, 0, LastIndex(cleaned, ",")), <<".">>, <<>>)
              \o <<".">> \o Slice(cleaned, LastIndex(cleaned, ",") + 1, Len(cleaned))
         ELSE Replace(Replace(cleaned, <<".">>, <<>>), <<",">>, <<".">>)
    ELSE IF Contains(cleaned, ",")
    THEN IF Count(cleaned, ",") = 1 /\ Len(SplitSecond(cleaned, ",")) <= 2
         THEN Replace(cleaned, <<",">>, <<".">>)
         ELSE Replace(cleaned, <<",">>, <<>>)
    ELSE IF Contains(cleaned, ".")
    THEN IF Count(cleaned, ".") = 1 /\ Len(SplitSecond(cleaned, ".")) <= 2
         THEN cleaned
         ELSE Replace(cleaned, <<".">>, <<>>)
    ELSE cleaned

normalize_amount(amount_text) ==
    IF Falsy(amount_text) THEN NULL
    ELSE ParseFloat(StandardizeSeparators(
             Replace(Replace(
                 Strip(Replace(Replace(Replace(amount_text,
                     <<"T", "L">>, <<>>), <<"T", "R", "Y">>, <<>>), <<"U+20BA">>, <<>>)),
                 <<"O">>, <<"0">>), <<"o">>, <<"0">>)))

\* validators.py lines 172-192: the amount _validate_amount parses from
\* extracted_fields["amount"] and stores as details["parsed_amount"]; NULL
\* where it reports an error instead (no text, float() raises, amount <= 0)
validate_amount(amount_str) ==
    IF Falsy(amount_str) THEN NULL
    ELSE IF IsNone(ParseFloat(Replace(Replace(amount_str, <<".">>, <<>>), <<",">>, <<".">>))) THEN NULL
    ELSE IF RLeq(ParseFloat(Replace(Replace(amount_str, <<".">>, <<>>), <<",">>, <<".">>)), R(0)) THEN NULL
    ELSE ParseFloat(Replace(Replace(amount_str, <<".">>, <<>>), <<",">>, <<".">>))

\* transaction_manager.py lines 154-160: the amount that
\* create_transaction_from_receipt stores in transaction.amount
create_transaction_from_receipt(amount_str) ==
    IF IsNone(ParseFloat(Replace(Replace(amount_str, <<".">>, <<>>), <<",">>, <<".">>))) THEN R(0)
    ELSE ParseFloat(Replace(Replace(amount_str, <<".">>, <<>>), <<",">>, <<".">>))

\* re.sub(r'([A-Z])d([A-Z])', r'\1x\2', s) for a digit d and a letter x
RECURSIVE SubBetweenLetters(_, _, _, _)
SubBetweenLetters(s, i, d, x) ==
    IF i >= Len(s) THEN <<>>
    ELSE IF i + 3 <= Len(s) /\ s[i + 1] \in AsciiUpper /\ s[i + 2] = d /\ s[i + 3] \in AsciiUpper
         THEN <<s[i + 1], x, s[i + 3]>> \o SubBetweenLetters(s, i + 3, d, x)
         ELSE <<s[i + 1]>> \o SubBetweenLetters(s, i + 1, d, x)

\* the three locality patterns: <<literal, optional suffixes, two-word group>>
mah_patterns ==
    << [lit |-> <<"M","A","H">>, opt |-> << <<"A","L","L","E">>, <<"S","I">> >>, two |-> TRUE],
       [lit |-> <<"S","O","K">>, opt |-> << <<"A","K">> >>, two |-> FALSE],
       [lit |-> <<"C","A","D">>, opt |-> << <<"D","E","S","I">> >>, two |-> FALSE] >>

\* end of the greedy optional suffixes "(?:x)?(?:y)?[\.]?" from index i
RECURSIVE OptEnd(_, _, _, _)
OptEnd(s, i, opt, k) ==
    IF k > Len(opt) THEN (IF StartsWithAt(s, i, <<".">>) THEN i + 1 ELSE i)
    ELSE OptEnd(s, IF StartsWithAt(s, i, opt[k]) THEN i + Len(opt[k]) ELSE i, opt, k + 1)

\* the words of a group (match.split()) longer than 2 characters; the group
\* is s[a:b], its first word ends at j and a second one starts at k
GroupWords(s, a, j, k, b) ==
    {w \in (IF j = b THEN {Slice(s, a, j)} ELSE {Slice(s, a, j), Slice(s, k, b)}) : Len(w) > 2}

\* one match attempt of a locality pattern at index i, where the word at i
\* ends at j, the whitespace after it at k, the next word at m and the
\* whitespace after that at n: <<kept words of the group, match end>>, or NULL
LocalityMatch(s, i, j, k, m, n, p) ==
    IF j = i THEN NULL
    ELSE IF p.two /\ k > j /\ m > k /\ n > m /\ StartsWithAt(s, n, p.lit)
         THEN <<GroupWords(s, i, j, k, m), OptEnd(s, n + Len(p.lit), p.opt, 1)>>
    ELSE IF k > j /\ StartsWithAt(s, k, p.lit)
         THEN <<GroupWords(s, i, j, k, j), OptEnd(s, k + Len(p.lit), p.opt, 1)>>
    ELSE NULL

AfterWord(s, i, j, p) ==
    LocalityMatch(s, i, j, RunEnd(s, j, Whitespace),
                  RunEnd(s, RunEnd(s, j, Whitespace), WordChars),
                  RunEnd(s, RunEnd(s, RunEnd(s, j, Whitespace), WordChars), Whitespace), p)

LocalityMatchAt(s, i, p) == AfterWord(s, i, RunEnd(s, i, WordChars), p)

\* re.findall(pattern, s) for a locality pattern, as the set of kept words
RECURSIVE LocalityKeywords(_, _, _)
RECURSIVE LocalityNext(_, _, _, _)
LocalityNext(s, i, p, mt) ==
    IF mt = NULL THEN LocalityKeywords(s, i + 1, p)
    ELSE mt[1] \cup LocalityKeywords(s, mt[2], p)
LocalityKeywords(s, i, p) ==
    IF i >= Len(s) THEN {}
    ELSE LocalityNext(s, i, p, LocalityMatchAt(s, i, p))

stopwords ==
    { <<"K","I","R","A">>, <<"R","E","N","T">>, <<"K","A","S","I","M">>,
      <<"A","R","A","L","I","K">>, <<"O","C","A","K">>, <<"S","U","B","A","T">>,
      <<"M","A","R","T">>, <<"N","I","S","A","N">>, <<"M","A","Y","I","S">>,
      <<"H","A","Z","I","R","A","N">>, <<"T","E","M","M","U","Z">>,
      <<"A","G","U","S","T","O","S">>, <<"E","Y","L","U","L">>, <<"E","K","I","M">>,
      <<"T","L">>, <<"T","R","Y">>, <<"U","S","D">>, <<"E","U","R">>,
      <<"F","A","S","T">>, <<"M","E","S","A","J">>, <<"H","A","V","A","L","E">> }

\* re.findall(r'\b([A-Z]{3,15})\b', s): the whole words of 3..15 capitals
RECURSIVE CapitalWords(_, _)
CapitalWord(s, i, j) ==
    IF RunEnd(s, i, AsciiUpper) = j /\ j - i >= 3 /\ j - i <= 15 THEN {Slice(s, i, j)} ELSE {}
CapitalWordsFrom(s, i, j) == CapitalWord(s, i, j) \cup CapitalWords(s, j)
CapitalWords(s, i) ==
    IF i >= Len(s) THEN {}
    ELSE IF s[i + 1] \notin WordChars THEN CapitalWords(s, i + 1)
    ELSE CapitalWordsFrom(s, i, RunEnd(s, i, WordChars))

num_patterns ==
    << <<"D","A","I","R","E">>, <<"K","A","T">>, <<"N","O">> >>

\* re.findall(prefix + r"[:\s]*([0-9]+)", s), each number tagged "prefix_number"
RECURSIVE NumberKeywords(_, _, _)
NumberAt(s, i, j, k, prefix) ==
    IF StartsWithAt(s, i, prefix) /\ k > j
    THEN {prefix \o <<"_">> \o Slice(s, j, k)} \cup NumberKeywords(s, k, prefix)
    ELSE NumberKeywords(s, i + 1, prefix)
NumberKeywords(s, i, prefix) ==
    IF i >= Len(s) THEN {}
    ELSE NumberAt(s, i, RunEnd(s, i + Len(prefix), Whitespace \cup {":"}),
                  RunEnd(s, RunEnd(s, i + Len(prefix), Whitespace \cup {":"}), Digits), prefix)

\* lines 153-197 on the upper-cased, folded and corrected text
Keywords(address_upper) ==
    UNION {LocalityKeywords(address_upper, 0, mah_patterns[k]) : k \in 1..3}
    \cup (CapitalWords(address_upper, 0) \ stopwords)
    \cup UNION {NumberKeywords(address_upper, 0, num_patterns[k]) : k \in 1..3}

extract_address_keywords(address) ==
    IF Falsy(address) THEN {}
    ELSE Keywords(SubBetweenLetters(SubBetweenLetters(
             ReplaceTable(Upper(address), turkish_chars, 1), 0, "0", "O"), 0, "1", "I"))

\* a variant that falls back on the edit similarity when either set is empty
KeywordSimilarityEitherEmpty(keywords1, keywords2, address1, address2) == IF keywords1 = {} \/ keywords2 = {} THEN levenshtein_similarity(address1, address2) ELSE Jaccard(keywords1, keywords2, R(0))

\* lines 217-231 on the two keyword sets
KeywordSimilarity(keywords1, keywords2, address1, address2) ==
    IF keywords1 = {} /\ keywords2 = {} THEN levenshtein_similarity(address1, address2)
    ELSE IF keywords1 = {} \/ keywords2 = {} THEN R(0)
    ELSE Jaccard(keywords1, keywords2, R(0))

address_similarity(address1, address2) ==
    IF Falsy(address1) \/ Falsy(address2) THEN R(0)
    ELSE KeywordSimilarity(extract_address_keywords(address1),
                           extract_address_keywords(address2), address1, address2)

(***************************************************************************)
(* matcher.py                                                              *)
(***************************************************************************)
\* MATCHING_CRITERIA with the weights of iban and amount exchanged
ExchangedCriteria ==
    [c \in {"iban", "amount", "name", "address", "sender"} |->
        CASE c = "iban"    -> [priority |-> 1, weight |-> 85, threshold |-> Rat(95, 100)]
          [] c = "amount"  -> [priority |-> 2, weight |-> 95, threshold |-> Rat(80, 100)]
          [] c = "name"    -> [priority |-> 3, weight |-> 75, threshold |-> Rat(70, 100)]
          [] c = "address" -> [priority |-> 4, weight |-> 70, threshold |-> Rat(60, 100)]
          [] c = "sender"  -> [priority |-> 5, weight |-> 60, threshold |-> Rat(60, 100)]]

\* MATCHING_CRITERIA with weight moved from address and sender to the others
TopHeavyCriteria ==
    [c \in {"iban", "amount", "name", "address", "sender"} |->
        CASE c = "iban"    -> [priority |-> 1, weight |-> 105, threshold |-> Rat(95, 100)]
          [] c = "amount"  -> [priority |-> 2, weight |-> 95, threshold |-> Rat(80, 100)]
          [] c = "name"    -> [priority |-> 3, weight |-> 85, threshold |-> Rat(70, 100)]
          [] c = "address" -> [priority |-> 4, weight |-> 50, threshold |-> Rat(60, 100)]
          [] c = "sender"  -> [priority |-> 5, weight |-> 50, threshold |-> Rat(60, 100)]]

\* MATCHING_CRITERIA (lines 46-52)
MATCHING_CRITERIA ==
    [c \in {"iban", "amount", "name", "address", "sender"} |->
        CASE c = "iban"    -> [priority |-> 1, weight |-> 95, threshold |-> Rat(95, 100)]
          [] c = "amount"  -> [priority |-> 2, weight |-> 85, threshold |-> Rat(80, 100)]
          [] c = "name"    -> [priority |-> 3, weight |-> 75, threshold |-> Rat(70, 100)]
          [] c = "address" -> [priority |-> 4, weight |-> 70, threshold |-> Rat(60, 100)]
          [] c = "sender"  -> [priority |-> 5, weight |-> 60, threshold |-> Rat(60, 100)]]

\* the keys of a scores dict in insertion order
ScoreKeys == <<"iban", "amount", "name", "address", "sender", "_customer_id">>

\* ReceiptMatchResult() with owner_id defaulting to 0 instead of None
ReceiptMatchResultOwnerZero ==
    [owner_id |-> 0, customer_id |-> NULL, property_id |-> NULL,
     match_status |-> "pending", confidence_score |-> R(0),
     matching_details |-> [criteria_scores |-> <<>>, candidates |-> <<>>,
                           best_match |-> NULL, all_candidates |-> NULL],
     iban_match_score |-> R(0), amount_match_score |-> R(0), name_match_score |-> R(0),
     address_match_score |-> R(0), sender_match_score |-> R(0),
     messages |-> <<>>]

\* ReceiptMatchResult() with the matching_details of lines 83-87
ReceiptMatchResult ==
    [owner_id |-> NULL, customer_id |-> NULL, property_id |-> NULL,
     match_status |-> "pending", confidence_score |-> R(0),
     matching_details |-> [criteria_scores |-> <<>>, candidates |-> <<>>,
                           best_match |-> NULL, all_candidates |-> NULL],
     iban_match_score |-> R(0), amount_match_score |-> R(0), name_match_score |-> R(0),
     address_match_score |-> R(0), sender_match_score |-> R(0),
     messages |-> <<>>]

\* dict.get(key, default) and "a or b" on optional strings
Get(d, key, default) == IF key \in DOMAIN d THEN d[key] ELSE default
Or(a, b) == IF Falsy(a) THEN b ELSE a

\* a variant that pairs an owner with every property
EveryProperty(properties, owner) == properties

\* [p for p in properties if p.get("owner_id") == owner["id"]]
OwnerProperties(properties, owner) == SelectSeq(properties, LAMBDA p : p.owner_id = owner.id)

\* one candidate dict per property (lines 220-225 and 237-242); the keys the
\* scoring loop adds later are NULL until then
PerProperty(owner, owner_properties, match_reason) ==
    [k \in 1..Len(owner_properties) |->
        [owner |-> owner, property |-> owner_properties[k], match_reason |-> match_reason,
         total_score |-> NULL, scores |-> NULL, customer_id |-> NULL]]

\* lines 226-230: an owner without property, matched by IBAN
WithoutProperty(owner, match_reason) ==
    << [owner |-> owner, property |-> NULL, match_reason |-> match_reason,
        total_score |-> NULL, scores |-> NULL, customer_id |-> NULL] >>

\* lines 234-242
ByName(owner, owner_properties, similarity) ==
    IF RGeq(similarity, Rat(7, 10))
    THEN PerProperty(owner, owner_properties, <<"name_similarity", similarity>>)
    ELSE <<>>

\* a variant that applies the name rule to an owner matched by IBAN as well
CandidatesOfBothRules(receiver_iban, receiver_name, owner, owner_iban, owner_name, owner_properties) ==
    (IF receiver_iban # <<>> /\ owner_iban # <<>> /\ receiver_iban = owner_iban
     THEN IF owner_properties # <<>>
          THEN PerProperty(owner, owner_properties, <<"iban_exact">>)
          ELSE WithoutProperty(owner, <<"iban_exact">>)
     ELSE <<>>)
    \o (IF receiver_name # <<>> /\ owner_name # <<>>
        THEN ByName(owner, owner_properties, name_similarity(receiver_name, owner_name))
        ELSE <<>>)

\* lines 215-242 for one owner, its IBAN and name normalized
CandidatesOf(receiver_iban, receiver_name, owner, owner_iban, owner_name, owner_properties) ==
    IF receiver_iban # <<>> /\ owner_iban # <<>> /\ receiver_iban = owner_iban
    THEN IF owner_properties # <<>>
         THEN PerProperty(owner, owner_properties, <<"iban_exact">>)
         ELSE WithoutProperty(owner, <<"iban_exact">>)
    ELSE IF receiver_name # <<>> /\ owner_name # <<>>
    THEN ByName(owner, owner_properties, name_similarity(receiver_name, owner_name))
    ELSE <<>>

\* the candidates one owner contributes (body of the loop of _find_candidates)
OwnerCandidates(receiver_iban, receiver_name, owner, properties) ==
    CandidatesOf(receiver_iban, receiver_name, owner, normalize_iban(owner.iban),
                 normalize_name(owner.full_name), OwnerProperties(properties, owner))

RECURSIVE FindFrom(_, _, _, _, _)
FindFrom(receiver_iban, receiver_name, owners, properties, k) ==
    IF k > Len(owners) THEN <<>>
    ELSE OwnerCandidates(receiver_iban, receiver_name, owners[k], properties)
         \o FindFrom(receiver_iban, receiver_name, owners, properties, k + 1)

find_candidates(receiver_iban, receiver_name, owners, properties) ==
    FindFrom(receiver_iban, receiver_name, owners, properties, 1)

\* IbanCompare without the test that both IBANs are non-empty
IbanCompareUnguarded(receiver_iban, owner_iban) ==
    IF receiver_iban = owner_iban THEN R(1)
    ELSE IF Len(receiver_iban) >= 4 /\ Len(owner_iban) >= 4
            /\ LastN(receiver_iban, 4) = LastN(owner_iban, 4)
         THEN Rat(1, 2)
         ELSE R(0)

\* a variant without the score for equal last 4 characters
IbanCompareNoPartial(receiver_iban, owner_iban) == IF receiver_iban # <<>> /\ receiver_iban = owner_iban THEN R(1) ELSE R(0)

\* criterion 1 of _calculate_match_scores (lines 269-276)
IbanCompare(receiver_iban, owner_iban) ==
    IF receiver_iban # <<>> /\ owner_iban # <<>>
    THEN IF receiver_iban = owner_iban THEN R(1)
         ELSE IF Len(receiver_iban) >= 4 /\ Len(owner_iban) >= 4
                 /\ LastN(receiver_iban, 4) = LastN(owner_iban, 4)
              THEN Rat(1, 2)
              ELSE R(0)
    ELSE R(0)

IbanScore(receiver_iban, owner) == IbanCompare(receiver_iban, normalize_iban(owner.iban))

\* ToleranceScore with the deviation added instead of subtracted
ToleranceScoreAdded(diff, tolerance) ==
    IF RLeq(diff, tolerance)
    THEN RAdd(R(1), RMul(RDiv(diff, tolerance), Rat(2, 10)))
    ELSE IF RLeq(diff, RMul(tolerance, R(2))) THEN Rat(1, 2)
    ELSE R(0)

\* a variant whose two bands exclude their upper boundary
ToleranceScoreExclusive(diff, tolerance) ==
    IF RLt(diff, tolerance)
    THEN RSub(R(1), RMul(RDiv(diff, tolerance), Rat(2, 10)))
    ELSE IF RLt(diff, RMul(tolerance, R(2))) THEN Rat(1, 2)
    ELSE R(0)

\* criterion 2 (lines 285-288)
ToleranceScore(diff, tolerance) ==
    IF RLeq(diff, tolerance)
    THEN RSub(R(1), RMul(RDiv(diff, tolerance), Rat(2, 10)))
    ELSE IF RLeq(diff, RMul(tolerance, R(2))) THEN Rat(1, 2)
    ELSE R(0)

\* lines 281-284
PriceScore(amount, property_price) ==
    IF ~IsNone(property_price) /\ property_price # R(0)
    THEN ToleranceScore(RAbs(RSub(amount, property_price)), RMul(property_price, Rat(5, 100)))
    ELSE R(0)

AmountScore(amount, property_obj) ==
    IF ~IsNone(amount) /\ amount # R(0) /\ ~IsNone(property_obj)
    THEN PriceScore(amount, property_obj.price)
    ELSE R(0)

\* a variant that gives a name no score
NameCompareNone(receiver_name, owner_name) == R(0)

\* criterion 3 (lines 292-293)
NameCompare(receiver_name, owner_name) ==
    IF receiver_name # <<>> /\ owner_name # <<>>
    THEN name_similarity(receiver_name, owner_name)
    ELSE R(0)

NameScore(receiver_name, owner) == NameCompare(receiver_name, normalize_name(owner.full_name))

\* criterion 4 (lines 296-299)
AddressScore(description, property_obj) ==
    IF ~Falsy(description) /\ ~IsNone(property_obj)
    THEN IF ~Falsy(property_obj.address)
         THEN address_similarity(description, property_obj.address)
         ELSE R(0)
    ELSE R(0)

\* criterion 5 (lines 304-310): the loop over customers;
\* acc = <<scores["sender"], best_customer_id>>
RECURSIVE SenderFrom(_, _, _, _)
\* a variant in which a customer of equal similarity replaces the best one
LaterCustomer(acc, similarity, customer) == IF RGeq(similarity, acc[1]) THEN <<similarity, customer.id>> ELSE acc
\* a variant that keeps the first customer with a name
FirstCustomer(acc, similarity, customer) == IF IsNone(acc[2]) THEN <<similarity, customer.id>> ELSE acc
BetterCustomer(acc, similarity, customer) ==
    IF RGt(similarity, acc[1]) THEN <<similarity, customer.id>> ELSE acc
CustomerStep(sender_name, customer, customer_name, acc) ==
    IF customer_name # <<>>
    THEN BetterCustomer(acc, name_similarity(sender_name, customer_name), customer)
    ELSE acc
SenderFrom(sender_name, customers, k, acc) ==
    IF k > Len(customers) \/ Len(acc) = 0 THEN acc
    ELSE SenderFrom(sender_name, customers, k + 1,
             CustomerStep(sender_name, customers[k], normalize_name(customers[k].full_name), acc))

SenderScore(sender_name, customers) ==
    IF sender_name # <<>> THEN SenderFrom(sender_name, customers, 1, <<R(0), NULL>>)
    ELSE <<R(0), NULL>>

\* the scores dict: the five criteria, and "_customer_id" when a customer was
\* found (lines 259-265 and 313-314); sender = <<score, best_customer_id>>
ScoresDict(iban, amount_score, name, address, sender) ==
    [c \in {"iban", "amount", "name", "address", "sender"}
           \cup (IF ~IsNone(sender[2]) THEN {"_customer_id"} ELSE {}) |->
        CASE c = "iban"    -> iban
          [] c = "amount"  -> amount_score
          [] c = "name"    -> name
          [] c = "address" -> address
          [] c = "sender"  -> sender[1]
          [] c = "_customer_id" -> sender[2]]

calculate_match_scores(receiver_iban, receiver_name, sender_name, amount, description, owner, property_obj, customers) ==
    ScoresDict(IbanScore(receiver_iban, owner), AmountScore(amount, property_obj),
               NameScore(receiver_name, owner), AddressScore(description, property_obj),
               SenderScore(sender_name, customers))

\* the loop of _calculate_total_confidence; acc = <<total_weight, weighted_sum>>
RECURSIVE WeightedSum(_, _, _)
\* AddCriterion that leaves a criterion of score 0 out of the total weight
AddNonZeroCriterion(acc, score, weight) ==
    IF score = R(0) THEN acc
    ELSE <<acc[1] + weight, RAdd(acc[2], RMul(score, R(weight)))>>
\* lines 332-336: one criterion added to the sums
AddCriterion(acc, score, weight) == <<acc[1] + weight, RAdd(acc[2], RMul(score, R(weight)))>>
WeightedSum(scores, k, acc) ==
    IF k > Len(ScoreKeys) THEN acc
    ELSE IF ScoreKeys[k] \in DOMAIN scores /\ ScoreKeys[k] \in DOMAIN MATCHING_CRITERIA
    THEN WeightedSum(scores, k + 1,
             AddCriterion(acc, scores[ScoreKeys[k]], MATCHING_CRITERIA[ScoreKeys[k]].weight))
    ELSE WeightedSum(scores, k + 1, acc)

\* lines 338-346
WeightedAverage(total_weight, weighted_sum) ==
    IF total_weight = 0 THEN R(0)
    ELSE RMul(RDiv(weighted_sum, R(total_weight)), R(100))

Totals(sums) == WeightedAverage(sums[1], sums[2])

calculate_total_confidence(scores) == Totals(WeightedSum(scores, 1, <<0, R(0)>>))

\* f"{x:.1f}": x rounded to tenths, as a number of tenths
Format1f(x) ==
    LET twice == (2 * 10 * x[1]) \div x[2]
        floor == twice \div 2
    IN  IF twice % 2 = 0 THEN floor
        ELSE IF (2 * 10 * x[1]) % x[2] # 0 THEN floor + 1
        ELSE IF floor % 2 = 0 THEN floor ELSE floor + 1

(***************************************************************************)
(* backend-simulation/services: the validation and the final status of a   *)
(* processed receipt.  The extracted field records drawn carry no "date"   *)
(* and no "sender_iban", whose checks then add warnings only.              *)
(***************************************************************************)
\* validators.py lines 137-148: a receiver IBAN is present and, after
\* strip(), upper() and the removal of blanks, is not "TR" and 24 digits
IbanError(extracted_fields) ==
    LET receiver_iban == Upper(Strip(Get(extracted_fields, "receiver_iban", <<>>)))
        clean == Replace(receiver_iban, <<" ">>, <<>>)
    IN  /\ receiver_iban # <<>>
        /\ ~(/\ Len(clean) = 26
             /\ clean[1] = "T" /\ clean[2] = "R"
             /\ \A i \in 3..26 : clean[i] \in Digits)

\* validators.py lines 172-229: the amount is absent, unparseable or not
\* above zero, or it is further than twice the tolerance from the expected
\* amount, which defaults to the price of the matched property
AmountError(extracted_fields, expected_amount, matched_property_id, properties) ==
    LET parsed == validate_amount(Get(extracted_fields, "amount", <<>>))
        found == IF IsNone(matched_property_id) THEN {}
                 ELSE {i \in 1..Len(properties) : properties[i].id = matched_property_id}
        comparison_amount ==
            IF ~IsNone(expected_amount) /\ expected_amount[1] # 0 THEN expected_amount
            ELSE IF found # {} /\ matched_property_id # 0
            THEN properties[CHOOSE i \in found : \A k \in found : i <= k].price
            ELSE NULL
    IN  \/ IsNone(parsed)
        \/ /\ ~IsNone(comparison_amount)
           /\ comparison_amount[1] # 0
           /\ RGt(RAbs(RSub(parsed, comparison_amount)),
                  RMul(RMul(comparison_amount, Rat(5, 100)), R(2)))

\* validators.py lines 284-304: no owner was matched, or the matched
\* property belongs to another owner
RelationshipError(matched_owner_id, matched_property_id, properties) ==
    \/ IsNone(matched_owner_id)
    \/ matched_owner_id = 0
    \/ /\ ~IsNone(matched_property_id)
       /\ matched_property_id # 0
       /\ \E i \in 1..Len(properties) :
            /\ properties[i].id = matched_property_id
            /\ \A k \in 1..(i - 1) : properties[k].id # matched_property_id
            /\ ~IsNone(properties[i].owner_id)
            /\ properties[i].owner_id # 0
            /\ properties[i].owner_id # matched_owner_id

\* validators.py lines 96-123 with add_error (lines 29-32): is_valid, which
\* every error reported by a check turns to False
validate(extracted_fields, match_result, expected_amount, properties) ==
    /\ ~IbanError(extracted_fields)
    /\ ~AmountError(extracted_fields, expected_amount, match_result.property_id, properties)
    /\ ~RelationshipError(match_result.owner_id, match_result.property_id, properties)
    /\ ~Falsy(Get(extracted_fields, "amount", NULL))

\* process_receipt that does not compare the matched owner with the expected one
ProcessReceiptUnexpected(match_result, is_valid, expected_owner_id) ==
    [is_valid |-> is_valid,
     success |-> ~(match_result.match_status = "matched" /\ ~is_valid),
     status |->
        IF match_result.match_status = "matched" /\ is_valid
        THEN IF RGeq(match_result.confidence_score, R(90)) THEN "approved" ELSE "manual_review"
        ELSE IF match_result.match_status = "manual_review" THEN "manual_review"
        ELSE "rejected"]

\* receipt_processor.py lines 198-232: the validation outcome is recorded,
\* the status decided, and an expected owner that differs from the matched
\* one turns the status into "manual_review"
process_receipt(match_result, is_valid, expected_owner_id) ==
    [is_valid |-> is_valid,
     success |-> (match_result.match_status = "matched" /\ is_valid)
                 \/ match_result.match_status = "manual_review",
     status |->
        IF /\ ~IsNone(expected_owner_id) /\ expected_owner_id # 0
           /\ ~IsNone(match_result.owner_id) /\ match_result.owner_id # 0
           /\ expected_owner_id # match_result.owner_id
        THEN "manual_review"
        ELSE IF match_result.match_status = "matched" /\ is_valid
        THEN IF RGeq(match_result.confidence_score, R(90)) THEN "approved" ELSE "manual_review"
        ELSE IF match_result.match_status = "manual_review" THEN "manual_review"
        ELSE "rejected"]

(***************************************************************************)
(* Reference data and extracted field records the calls are drawn from.    *)
(* An absent key of a reference record is NULL; an extracted field record  *)
(* is a function on the keys it has.                                       *)
(***************************************************************************)
OwnerPool ==
    << [id |-> 1, full_name |-> <<"A", "h", "m", "e", "t", " ", "Y", "U+0131", "l", "m", "a", "z">>, iban |-> <<"T", "R", "3", "3", "0", "0", "0", "6", "1", "0", "0", "5", "1", "9", "7", "8", "6", "4", "5", "7", "8", "4", "1", "3", "2", "6">>],
       [id |-> 2, full_name |-> <<"A", "h", "m", "e", "t", " ", "Y", "i", "l", "m", "a", "z">>, iban |-> NULL],
       [id |-> 3, full_name |-> <<"A", "y", "U+015F", "e", " ", "D", "e", "m", "i", "r">>, iban |-> <<"T", "R", "3", "3", " ", "0", "0", "0", "6", " ", "1", "0", "0", "5", " ", "1", "9", "7", "8", " ", "6", "4", "5", "7", " ", "8", "4", "1", "3", " ", "2", "6">>],
       [id |-> 4, full_name |-> <<"A", "h", "m", "e", "d", " ", "Y", "U+0131", "l", "m", "a", "z">>, iban |-> <<"t", "r", "1", "2", "-", "0", "0", "0", "1", "-", "0", "0", "0", "0", "-", "0", "0", "0", "0", "-", "0", "0", "0", "0", "-", "0", "0", "1", "3", "-", "2", "6">>] >>

PropertyPool ==
    << [id |-> 1, owner_id |-> 1, price |-> R(15000), address |-> <<"K", "a", "d", "U+0131", "k", "U+00F6", "y", " ", "M", "o", "d", "a", " ", "C", "a", "d", "d", "e", "s", "i", " ", "N", "o", " ", "4", "5">>],
       [id |-> 2, owner_id |-> 2, price |-> R(14500), address |-> <<"1", "2", "/", "4">>],
       [id |-> 3, owner_id |-> 1, price |-> R(15000), address |-> <<"M", "o", "d", "a", " ", "C", "a", "d", "d", "e", "s", "i", " ", "N", "o", " ", "4", "5">>],
       [id |-> 4, owner_id |-> 3, price |-> NULL, address |-> NULL],
       [id |-> 5, owner_id |-> 4, price |-> R(15000), address |-> <<"M", "o", "d", "a", " ", "M", "a", "h", ".", " ", "D", "e", "n", "i", "z", " ", "S", "o", "k", "a", "k", " ", "D", "a", "i", "r", "e", ":", "8">>] >>

CustomerPool ==
    << [id |-> 4, full_name |-> <<"M", "e", "h", "m", "e", "t", " ", "K", "a", "r", "a">>],
       [id |-> 1, full_name |-> <<"M", "e", "h", "m", "e", "t", " ", "K", "a", "y", "a">>],
       [id |-> 2, full_name |-> <<"M", "E", "H", "M", "E", "T", " ", " ", "K", "A", "Y", "A">>],
       [id |-> 3, full_name |-> NULL] >>

\* a record with the five fields under their primary keys
FullRecord ==
    [receiver_iban |-> <<"T", "R", "3", "3", "0", "0", "0", "6", "1", "0", "0", "5", "1", "9", "7", "8", "6", "4", "5", "7", "8", "4", "1", "3", "2", "6">>,
     receiver_name |-> <<"A", "h", "m", "e", "t", " ", "Y", "U+0131", "l", "m", "a", "z">>,
     sender_name |-> <<"M", "e", "h", "m", "e", "t", " ", "K", "a", "y", "a">>,
     amount |-> <<"1", "5", ".", "0", "0", "0", ",", "0", "0">>,
     description |-> <<"K", "i", "r", "a", " ", "M", "o", "d", "a", " ", "C", "a", "d", "d", "e", "s", "i", " ", "N", "o", " ", "4", "5">>]

\* records under the alternative keys, with empty and unparseable values
AliasRecords ==
    << [receiver_account |-> <<"T", "R", "3", "3", " ", "0", "0", "0", "6", " ", "1", "0", "0", "5", " ", "1", "9", "7", "8", " ", "6", "4", "5", "7", " ", "8", "4", "1", "3", " ", "2", "6">>,
        recipient |-> <<"a", "h", "m", "e", "t", " ", " ", "y", "i", "l", "m", "z">>,
        sender |-> <<"M", ".", " ", "K", "a", "y", "a">>,
        amount_text |-> <<"1", "5", "5", "0", "0", ".", "0", "0", " ", "T", "L">>,
        description |-> <<"1", "2", "/", "4">>],
       [receiver_iban |-> <<"T", "R", "9", "9", "X", "X", "X", "X", "1", "3", "2", "6">>,
        receiver_name |-> <<"A", "h", "m", "e", "t", " ", "Y", "i", "l", "m", "a", "z">>,
        sender_name |-> <<>>,
        amount |-> <<"n", "o", "t", " ", "a", " ", "n", "u", "m", "b", "e", "r">>,
        description |-> <<>>],
       [receiver_account |-> <<>>,
        receiver_iban |-> <<"T", "R", "3", "3", "0", "0", "0", "6", "1", "0", "0", "5", "1", "9", "7", "8", "6", "4", "5", "7", "8", "4", "1", "3", "2", "6">>,
        amount_text |-> <<>>,
        amount |-> <<"1", "4", ".", "2", "5", "0", ",", "0", "0">>],
       [receiver_iban |-> <<"-", "-", " ", "-", "-">>,
        receiver_name |-> <<"A", "h", "m", "e", "t", " ", "Y", "U+0131", "l", "m", "a", "z">>,
        amount |-> <<"1", "6", "5", "0", "0">>],
       [receiver_iban |-> <<"T", "R", "0", "0", "0", "0", "0", "0", "0", "0", "0", "0", "0", "0", "0", "0", "0", "0", "0", "0", "0", "0", "0", "0", "0", "0">>,
        receiver_name |-> <<"Z", "e", "y", "n", "e", "p", " ", "A", "r", "s", "l", "a", "n">>,
        amount |-> <<"1", "5", "0", "0", "0">>,
        description |-> <<"K", "i", "r", "a">>] >>


\* the most owners, properties and customers of a call's reference data
MaxOwners == 2
MaxProperties == 3
MaxCustomers == 3

\* the default of the min_confidence parameter
DefaultMinConfidence == 70

Prefixes(pool, max) == {SubSeq(pool, 1, n) : n \in 0..Min2(max, Len(pool))}

\* the threshold a caller may pass: the default, or the confidence of a
\* candidate that matches by IBAN alone (100 * 95 / 385)
MinConfidences == {R(DefaultMinConfidence), Rat(100 * 95, 385)}

\* the extracted field records: FullRecord with any subset of its keys
\* absent, and the records under the alternative keys
Restrict(d, keys) == [k \in keys |-> d[k]]
OcrRecords ==
    {Restrict(FullRecord, keys) : keys \in SUBSET DOMAIN FullRecord}
    \cup {AliasRecords[k] : k \in 1..Len(AliasRecords)}

(***************************************************************************)
(* One call of match_receipt, step by step.                                *)
(***************************************************************************)
VARIABLES
    ocr_data, owners, customers, properties, min_confidence,  \* the arguments
    pc,                \* position in match_receipt, "processed" after its caller
    receiver_iban, receiver_name, sender_name, amount, description,
    candidates,        \* the list _find_candidates returned
    idx,               \* 1-based position of the scoring loop in candidates
    best_match, best_score,
    result             \* the ReceiptMatchResult under construction

\* one call of a helper function on its own
VARIABLES
    fn,                \* the function called, "none" while match_receipt runs
                       \* and "process_receipt" once its caller has gone on
    fn_args,           \* its arguments
    fn_ret             \* <<>> until it returns, then <<the value returned>>

\* calls of match_receipt that share the reference data
VARIABLES
    running,           \* the number of the call whose frame the variables above hold
    other,             \* the frame of the call that is not running, None with one call
    alone              \* the results of the calls that have run alone, in order

args == <<ocr_data, owners, customers, properties, min_confidence>>
locals == <<receiver_iban, receiver_name, sender_name, amount, description>>
helper == <<fn, fn_args, fn_ret>>
calls == <<running, other, alone>>
vars == <<args, pc, locals, candidates, idx, best_match, best_score, result, helper, calls>>

Init ==
    /\ ocr_data \in OcrRecords
    /\ owners \in Prefixes(OwnerPool, MaxOwners)
    /\ customers \in Prefixes(CustomerPool, MaxCustomers)
    /\ properties \in Prefixes(PropertyPool, MaxProperties)
    /\ min_confidence \in MinConfidences
    /\ pc = "start"
    /\ receiver_iban = NULL /\ receiver_name = NULL /\ sender_name = NULL
    /\ amount = NULL /\ description = NULL
    /\ candidates = <<>>
    /\ idx = 0
    /\ best_match = NULL
    /\ best_score = R(0)
    /\ result = NULL
    /\ fn = "none" /\ fn_args = <<>> /\ fn_ret = <<>>
    /\ running = 1 /\ other = NULL /\ alone = <<>>

\* lines 82-94: construct the result, normalize the extracted fields
Normalize ==
    /\ pc = "start"
    /\ result' = ReceiptMatchResult
    /\ receiver_iban' = normalize_iban(Or(Get(ocr_data, "receiver_account", NULL),
                                          Get(ocr_data, "receiver_iban", <<>>)))
    /\ receiver_name' = normalize_name(Or(Get(ocr_data, "receiver_name", NULL),
                                          Get(ocr_data, "recipient", <<>>)))
    /\ sender_name' = normalize_name(Or(Get(ocr_data, "sender_name", NULL),
                                        Get(ocr_data, "sender", <<>>)))
    /\ amount' = normalize_amount(Or(Get(ocr_data, "amount_text", NULL),
                                     Get(ocr_data, "amount", <<>>)))
    /\ description' = Get(ocr_data, "description", <<>>)
    /\ pc' = "find"
    /\ UNCHANGED <<calls, helper, args, candidates, idx, best_match, best_score>>

\* lines 96-104
FindCandidates ==
    /\ pc = "find"
    /\ candidates' = find_candidates(receiver_iban, receiver_name, owners, properties)
    /\ pc' = "check"
    /\ UNCHANGED <<calls, helper, args, locals, idx, best_match, best_score, result>>

\* ReturnNoCandidates without the message
ReturnNoCandidatesSilent ==
    /\ pc = "check"
    /\ candidates = <<>>
    /\ result' = [result EXCEPT !.match_status = "manual_review"]
    /\ pc' = "done"
    /\ UNCHANGED <<calls, helper, args, locals, candidates, idx, best_match, best_score>>

\* ReturnNoCandidates without the assignment of match_status
ReturnNoCandidatesPending ==
    /\ pc = "check"
    /\ candidates = <<>>
    /\ result' = [result EXCEPT !.messages = Append(@, <<"Eslesen kayit bulunamadi">>)]
    /\ pc' = "done"
    /\ UNCHANGED <<calls, helper, args, locals, candidates, idx, best_match, best_score>>

\* lines 106-109
ReturnNoCandidates ==
    /\ pc = "check"
    /\ candidates = <<>>
    /\ result' = [result EXCEPT
                    !.messages = Append(@, <<"Eslesen kayit bulunamadi">>),
                    !.match_status = "manual_review"]
    /\ pc' = "done"
    /\ UNCHANGED <<calls, helper, args, locals, candidates, idx, best_match, best_score>>

\* lines 111-113
StartScoring ==
    /\ pc = "check"
    /\ candidates # <<>>
    /\ best_match' = NULL
    /\ best_score' = R(0)
    /\ idx' = 1
    /\ pc' = "score"
    /\ UNCHANGED <<calls, helper, args, locals, candidates, result>>

\* lines 130-134: the candidate with its scores
ScoredCandidate(candidate, scores, total_score) ==
    [candidate EXCEPT
       !.total_score = total_score,
       !.scores = scores,
       !.customer_id = IF "_customer_id" \in DOMAIN scores THEN scores["_customer_id"] ELSE @]

\* lines 141-146: the key and the entry written to criteria_scores
CriteriaKey(r) == <<"candidate", Len(r.matching_details.candidates)>>
CriteriaEntry(candidate, scores, total_score) ==
    [owner_id |-> candidate.owner.id,
     property_id |-> IF IsNone(candidate.property) THEN NULL ELSE candidate.property.id,
     scores |-> scores,
     total_score |-> total_score]

\* a variant in which a candidate of equal confidence replaces the best one
RecordScoreLastWins(candidate, scores, total_score) ==
    /\ candidates' = [candidates EXCEPT ![idx] = ScoredCandidate(candidate, scores, total_score)]
    /\ IF RGeq(total_score, best_score)
       THEN /\ best_score' = total_score
            /\ best_match' = ScoredCandidate(candidate, scores, total_score)
       ELSE UNCHANGED <<best_score, best_match>>
    /\ result' = [result EXCEPT !.matching_details.criteria_scores =
                     (CriteriaKey(result) :> CriteriaEntry(candidate, scores, total_score)) @@ @]

\* lines 129-146 with the scores of the candidate at idx
RecordScore(candidate, scores, total_score) ==
    /\ candidates' = [candidates EXCEPT ![idx] = ScoredCandidate(candidate, scores, total_score)]
    /\ IF RGt(total_score, best_score)
       THEN /\ best_score' = total_score
            /\ best_match' = ScoredCandidate(candidate, scores, total_score)
       ELSE UNCHANGED <<best_score, best_match>>
    /\ result' = [result EXCEPT !.matching_details.criteria_scores =
                     (CriteriaKey(result) :> CriteriaEntry(candidate, scores, total_score)) @@ @]

RecordScores(candidate, scores) ==
    RecordScore(candidate, scores, calculate_total_confidence(scores))

\* lines 115-146: one iteration of the loop over candidates
ScoreCandidate ==
    /\ pc = "score"
    /\ idx <= Len(candidates)
    /\ RecordScores(candidates[idx],
           calculate_match_scores(receiver_iban, receiver_name, sender_name, amount,
               description, candidates[idx].owner, candidates[idx].property, customers))
    /\ idx' = idx + 1
    /\ UNCHANGED <<calls, helper, args, locals, pc>>

\* the fields lines 153-164 and 179-190 copy from the best candidate
WithBestMatch(r) ==
    LET scores == best_match.scores
    IN  [r EXCEPT
           !.owner_id = best_match.owner.id,
           !.property_id = IF IsNone(best_match.property) THEN NULL ELSE best_match.property.id,
           !.customer_id = best_match.customer_id,
           !.confidence_score = best_score,
           !.iban_match_score = Get(scores, "iban", R(0)),
           !.amount_match_score = Get(scores, "amount", R(0)),
           !.name_match_score = Get(scores, "name", R(0)),
           !.address_match_score = Get(scores, "address", R(0)),
           !.sender_match_score = Get(scores, "sender", R(0))]

\* Accepts with an exclusive threshold
AcceptsAbove(best, score, threshold) == ~IsNone(best) /\ RGt(score, threshold)

\* line 151: "if best_match and best_score_percent >= min_confidence"
Accepts(best, score, threshold) == ~IsNone(best) /\ RGeq(score, threshold)

\* DecideMatched without the fields of the best candidate
DecideMatchedUnpopulated ==
    /\ pc = "score"
    /\ idx > Len(candidates)
    /\ Accepts(best_match, best_score, min_confidence)
    /\ result' = [result EXCEPT
                    !.matching_details.best_match = best_match,
                    !.matching_details.all_candidates = candidates,
                    !.match_status = "matched",
                    !.messages = Append(@,
                        IF RGeq(best_score, R(90))
                        THEN <<"Yuksek guvenle eslestirildi", Format1f(best_score)>>
                        ELSE <<"Eslestirildi", Format1f(best_score)>>)]
    /\ pc' = "done"
    /\ UNCHANGED <<calls, helper, args, locals, candidates, idx, best_match, best_score>>

\* lines 151-174: the best candidate reaches min_confidence
DecideMatched ==
    /\ pc = "score"
    /\ idx > Len(candidates)
    /\ Accepts(best_match, best_score, min_confidence)
    /\ result' = [WithBestMatch(result) EXCEPT
                    !.matching_details.best_match = best_match,
                    !.matching_details.all_candidates = candidates,
                    !.match_status = "matched",
                    !.messages = Append(@,
                        IF RGeq(best_score, R(90))
                        THEN <<"Yuksek guvenle eslestirildi", Format1f(best_score)>>
                        ELSE <<"Eslestirildi", Format1f(best_score)>>)]
    /\ pc' = "done"
    /\ UNCHANGED <<calls, helper, args, locals, candidates, idx, best_match, best_score>>

\* DecideManualReview without the fields of the best candidate
DecideManualReviewUnpopulated ==
    /\ pc = "score"
    /\ idx > Len(candidates)
    /\ ~Accepts(best_match, best_score, min_confidence)
    /\ result' = [result EXCEPT
                    !.match_status = "manual_review",
                    !.messages = Append(@, <<"Dusuk guven skoru, manuel inceleme gerekli",
                                            Format1f(best_score)>>)]
    /\ pc' = "done"
    /\ UNCHANGED <<calls, helper, args, locals, candidates, idx, best_match, best_score>>

\* lines 175-194: manual review, with the best candidate when there is one
DecideManualReview ==
    /\ pc = "score"
    /\ idx > Len(candidates)
    /\ ~Accepts(best_match, best_score, min_confidence)
    /\ result' =
          IF ~IsNone(best_match)
          THEN [WithBestMatch(result) EXCEPT
                  !.match_status = "manual_review",
                  !.messages = Append(@, <<"Dusuk guven skoru, manuel inceleme gerekli",
                                           Format1f(best_score)>>)]
          ELSE [result EXCEPT
                  !.match_status = "manual_review",
                  !.messages = Append(@, <<"Eslesen kayit bulunamadi">>)]
    /\ pc' = "done"
    /\ UNCHANGED <<calls, helper, args, locals, candidates, idx, best_match, best_score>>

\* receipt_processor.py lines 154-234: process_receipt, which found fields to
\* extract and has the result of match_receipt, validates the fields and
\* decides the status; the caller may expect an amount and an owner
Processed(expected_amount, expected_owner_id) ==
    /\ fn' = "process_receipt"
    /\ fn_args' = <<expected_amount, expected_owner_id>>
    /\ fn_ret' = <<process_receipt(result,
                       validate(ocr_data, result, expected_amount, properties),
                       expected_owner_id)>>

ProcessReceipt ==
    /\ pc = "done"
    /\ DOMAIN ocr_data # {}
    /\ \/ Processed(NULL, NULL)
       \/ \E expected_owner_id \in 1..MaxOwners : Processed(NULL, expected_owner_id)
       \/ \E expected_owner_id \in 1..MaxOwners : Processed(R(15000), expected_owner_id)
    /\ pc' = "processed"
    /\ UNCHANGED <<calls, args, locals, candidates, idx, best_match, best_score, result>>

Next ==
    \/ Normalize
    \/ FindCandidates
    \/ ReturnNoCandidates
    \/ StartScoring
    \/ ScoreCandidate
    \/ DecideMatched
    \/ DecideManualReview
    \/ ProcessReceipt

Spec == Init /\ [][Next]_vars

(***************************************************************************)
(* Two calls of match_receipt on the same owners, customers and            *)
(* properties.  Each call runs alone first, then both run again, one step  *)
(* of one call at a time in any order.  A call has its own frame of local  *)
(* variables and its own ReceiptMatchResult; the lists are the objects the *)
(* caller passed to both.                                                  *)
(***************************************************************************)
\* a variant in which best_match and best_score are no part of a frame: the
\* call that stops running leaves the values of the call that resumes
FrameSharedBest ==
    [call |-> running, ocr_data |-> ocr_data, min_confidence |-> min_confidence,
     pc |-> pc, receiver_iban |-> receiver_iban, receiver_name |-> receiver_name,
     sender_name |-> sender_name, amount |-> amount, description |-> description,
     candidates |-> candidates, idx |-> idx, best_match |-> other.best_match,
     best_score |-> other.best_score, result |-> result]

\* the frame of the running call
Frame ==
    [call |-> running, ocr_data |-> ocr_data, min_confidence |-> min_confidence,
     pc |-> pc, receiver_iban |-> receiver_iban, receiver_name |-> receiver_name,
     sender_name |-> sender_name, amount |-> amount, description |-> description,
     candidates |-> candidates, idx |-> idx, best_match |-> best_match,
     best_score |-> best_score, result |-> result]

\* the frame of a call that has not begun
NewFrame(call, record, threshold) ==
    [call |-> call, ocr_data |-> record, min_confidence |-> threshold,
     pc |-> "start", receiver_iban |-> NULL, receiver_name |-> NULL,
     sender_name |-> NULL, amount |-> NULL, description |-> NULL,
     candidates |-> <<>>, idx |-> 0, best_match |-> NULL,
     best_score |-> R(0), result |-> NULL]

\* the call of a frame becomes the running call
Resume(frame) ==
    /\ running' = frame.call
    /\ ocr_data' = frame.ocr_data
    /\ min_confidence' = frame.min_confidence
    /\ pc' = frame.pc
    /\ receiver_iban' = frame.receiver_iban
    /\ receiver_name' = frame.receiver_name
    /\ sender_name' = frame.sender_name
    /\ amount' = frame.amount
    /\ description' = frame.description
    /\ candidates' = frame.candidates
    /\ idx' = frame.idx
    /\ best_match' = frame.best_match
    /\ best_score' = frame.best_score
    /\ result' = frame.result

\* the extracted field records of the two calls
ConcurrentRecords == {FullRecord} \cup {AliasRecords[k] : k \in 1..Len(AliasRecords)}

ConcurrentInit ==
    /\ owners \in Prefixes(OwnerPool, MaxOwners)
    /\ customers = SubSeq(CustomerPool, 1, Min2(MaxCustomers, Len(CustomerPool)))
    /\ properties = SubSeq(PropertyPool, 1, Min2(MaxProperties, Len(PropertyPool)))
    /\ ocr_data \in ConcurrentRecords
    /\ min_confidence = R(DefaultMinConfidence)
    /\ pc = "start"
    /\ receiver_iban = NULL /\ receiver_name = NULL /\ sender_name = NULL
    /\ amount = NULL /\ description = NULL
    /\ candidates = <<>>
    /\ idx = 0
    /\ best_match = NULL
    /\ best_score = R(0)
    /\ result = NULL
    /\ fn = "none" /\ fn_args = <<>> /\ fn_ret = <<>>
    /\ running = 1
    /\ \E record \in ConcurrentRecords : other = NewFrame(2, record, Rat(100 * 95, 385))
    /\ alone = <<>>

\* a call that ran alone has returned: the next call begins, with the
\* arguments of the call that returned kept for its second run
FinishAlone ==
    /\ pc = "done"
    /\ Len(alone) < 2
    /\ alone' = Append(alone, result)
    /\ Resume(other)
    /\ other' = NewFrame(running, ocr_data, min_confidence)
    /\ UNCHANGED <<owners, customers, properties, helper>>

\* the scheduler lets the other call take its next step
Switch ==
    /\ Len(alone) = 2
    /\ other.pc # "done"
    /\ Resume(other)
    /\ other' = Frame
    /\ UNCHANGED <<owners, customers, properties, helper, alone>>

ConcurrentNext ==
    \/ Normalize
    \/ FindCandidates
    \/ ReturnNoCandidates
    \/ StartScoring
    \/ ScoreCandidate
    \/ DecideMatched
    \/ DecideManualReview
    \/ FinishAlone
    \/ Switch

ConcurrentSpec == ConcurrentInit /\ [][ConcurrentNext]_vars

(***************************************************************************)
(* One call of a normalizer or similarity function on its own.             *)
(***************************************************************************)
\* the longest amount text drawn over AmountChars
MaxAmountLen == 5

\* the strings over an alphabet up to a length
Strings(alphabet, n) == UNION {[1..k -> alphabet] : k \in 0..n}

\* amount texts: digits with the two separators, and the texts of the
\* documentation of normalize_amount
AmountChars == {"4", "0", ",", "."}
AmountTexts ==
    Strings(AmountChars, MaxAmountLen)
    \cup { <<"4", "5", ".", "0", "0", "0", ",", "0", "0">>,
           <<"4", "5", ",", "0", "0", "0", ".", "0", "0">>,
           <<"4", "5", "0", "0", "0", ".", "0", "0">>,
           <<"3", "5", "0", "0", "0", ".", "0", "0">>,
           <<"n", "o", "t", " ", "a", " ", "n", "u", "m", "b", "e", "r">> }

\* the longest IBAN text drawn
MaxIbanLen == 5

\* IBAN texts: a letter, the letters an OCR confuses with digits, in both
\* cases, and the two characters that are removed; and two longer texts
IbanTexts ==
    Strings({"T", "O", "i", "l", " ", "-"}, MaxIbanLen)
    \cup { <<"t", "r", "1", "2", " ", "O", "O", "l", "1", "-", "I">>,
           <<"T", "R", "3", "3", " ", "0", "0", "0", "6", " ", "1", "O", "O", "5">> }

\* the longest name drawn
MaxNameLen == 3

\* names: two letters, one of them in both cases
NameTexts == Strings({"a", "b", "A"}, MaxNameLen)

\* the longest address drawn
MaxAddressLen == 3

\* addresses: a letter, a digit an OCR confuses with a letter, and a blank;
\* and addresses in the style of the reference data
AddressTexts ==
    Strings({"A", "1", " "}, MaxAddressLen)
    \cup { <<"M", "o", "d", "a", " ", "M", "a", "h", ".", " ", "N", "o", ":", "5">>,
           <<"M", "0", "D", "A", " ", "n", "o", " ", "5">>,
           <<"K", "a", "t", " ", "2">>,
           <<"5", "/", "3">> }

\* no call of match_receipt is in progress
NoMatchCall ==
    /\ ocr_data = <<>> /\ owners = <<>> /\ customers = <<>> /\ properties = <<>>
    /\ min_confidence = R(DefaultMinConfidence)
    /\ pc = "idle"
    /\ receiver_iban = NULL /\ receiver_name = NULL /\ sender_name = NULL
    /\ amount = NULL /\ description = NULL
    /\ candidates = <<>>
    /\ idx = 0
    /\ best_match = NULL
    /\ best_score = R(0)
    /\ result = NULL
    /\ running = 1 /\ other = NULL /\ alone = <<>>

\* function f is called with arguments a
Called(f, a) == fn = f /\ fn_args = a

\* the calls drawn
HelperCall ==
    \/ \E text \in AmountTexts : Called("normalize_amount", <<text>>)
    \/ \E f \in {"_validate_amount", "create_transaction_from_receipt"}, text \in AmountTexts : Called(f, <<text>>)
    \/ \E iban \in IbanTexts : Called("normalize_iban", <<iban>>)
    \/ Called("normalize_iban", <<NULL>>)
    \/ \E address1, address2 \in AddressTexts : Called("address_similarity", <<address1, address2>>)
    \/ \E f \in {"levenshtein_distance", "levenshtein_similarity", "name_similarity"}, s1, s2 \in NameTexts : Called(f, <<s1, s2>>)

HelperInit ==
    /\ NoMatchCall
    /\ HelperCall
    /\ fn_ret = <<>>

\* the function returns value
Return(value) ==
    /\ fn_ret = <<>>
    /\ fn_ret' = <<value>>
    /\ UNCHANGED <<calls, fn, fn_args, args, pc, locals, candidates, idx, best_match, best_score, result>>

CallNormalizeAmount ==
    /\ fn = "normalize_amount"
    /\ Return(normalize_amount(fn_args[1]))

\* the amount check of ReceiptValidator on the text of the field "amount"
CallValidateAmount ==
    /\ fn = "_validate_amount"
    /\ Return(validate_amount(fn_args[1]))

\* the amount of the transaction created from the text of the field "amount"
CallCreateTransaction ==
    /\ fn = "create_transaction_from_receipt"
    /\ Return(create_transaction_from_receipt(fn_args[1]))

CallNormalizeIban ==
    /\ fn = "normalize_iban"
    /\ Return(normalize_iban(fn_args[1]))

\* the value returned is normalized once more
CallNormalizeIbanAgain ==
    /\ fn = "normalize_iban"
    /\ Len(fn_ret) = 1
    /\ fn_ret' = Append(fn_ret, normalize_iban(fn_ret[1]))
    /\ UNCHANGED <<calls, fn, fn_args, args, pc, locals, candidates, idx, best_match, best_score, result>>

CallLevenshteinDistance ==
    /\ fn = "levenshtein_distance"
    /\ Return(levenshtein_distance(fn_args[1], fn_args[2]))

CallLevenshteinSimilarity ==
    /\ fn = "levenshtein_similarity"
    /\ Return(levenshtein_similarity(fn_args[1], fn_args[2]))

CallNameSimilarity ==
    /\ fn = "name_similarity"
    /\ Return(name_similarity(fn_args[1], fn_args[2]))

CallAddressSimilarity ==
    /\ fn = "address_similarity"
    /\ Return(address_similarity(fn_args[1], fn_args[2]))

HelperNext ==
    \/ CallNormalizeAmount
    \/ CallValidateAmount
    \/ CallCreateTransaction
    \/ CallNormalizeIban
    \/ CallNormalizeIbanAgain
    \/ CallLevenshteinDistance
    \/ CallLevenshteinSimilarity
    \/ CallNameSimilarity
    \/ CallAddressSimilarity

HelperSpec == HelperInit /\ [][HelperNext]_vars

(***************************************************************************)
(* Properties of match_receipt.                                            *)
(***************************************************************************)
CriterionKeys == {"iban", "amount", "name", "address", "sender"}

\* match_receipt has returned
Returned == pc = "done"

\* the positions of the candidates the scoring loop has scored
ScoredIndices == IF pc \in {"score", "done"} THEN 1..(idx - 1) ELSE {}

\* the greatest confidence among the candidates, once all are scored
Confidences == {candidates[k].total_score : k \in 1..Len(candidates)}
MaxConfidence == CHOOSE c \in Confidences : \A d \in Confidences : RLeq(d, c)

\* an optional id equals another
SameId(a, b) == IsNone(a) = IsNone(b) /\ (IsNone(a) \/ a = b)

\* the result carries the ids and scores of candidate c
PropertyIdOf(c) == IF IsNone(c.property) THEN NULL ELSE c.property.id
Carries(r, c) ==
    /\ SameId(r.owner_id, c.owner.id)
    /\ SameId(r.property_id, PropertyIdOf(c))
    /\ SameId(r.customer_id, c.customer_id)
    /\ r.confidence_score = c.total_score
    /\ r.iban_match_score = c.scores["iban"]
    /\ r.amount_match_score = c.scores["amount"]
    /\ r.name_match_score = c.scores["name"]
    /\ r.address_match_score = c.scores["address"]
    /\ r.sender_match_score = c.scores["sender"]

\* the five scores of a result, in the order of the weights 95, 85, 75, 70, 60
ResultScores(r) ==
    <<r.iban_match_score, r.amount_match_score, r.name_match_score,
      r.address_match_score, r.sender_match_score>>

\* C1: when at least one candidate is generated, the returned match_status is
\* "matched" exactly when the greatest candidate confidence is at least
\* min_confidence (the boundary included); a confidence of 90 or more only
\* changes the text of the message of a matched result.
C1_MatchedIffThresholdReached ==
    (Returned /\ candidates # <<>>) =>
        /\ (result.match_status = "matched") <=> ~RLt(MaxConfidence, min_confidence)
        /\ (result.match_status # "matched") <=> (result.match_status = "manual_review")
        /\ result.match_status = "matched" =>
              result.messages =
                  << <<IF ~RLt(MaxConfidence, R(90)) THEN "Yuksek guvenle eslestirildi"
                                                     ELSE "Eslestirildi",
                       Format1f(MaxConfidence)>> >>

\* a matched result whose confidence equals min_confidence
C1_Witness ==
    /\ Returned /\ candidates # <<>>
    /\ result.match_status = "matched"
    /\ result.confidence_score = min_confidence

\* the call of the end-to-end scenario: owner 1, property 1, no customers,
\* the fields receiver_iban, amount and description, the default threshold
EndToEndCall ==
    /\ ocr_data = Restrict(FullRecord, {"receiver_iban", "amount", "description"})
    /\ owners = SubSeq(OwnerPool, 1, 1)
    /\ properties = SubSeq(PropertyPool, 1, 1)
    /\ customers = <<>>
    /\ min_confidence = R(DefaultMinConfidence)

\* C2, as the code decides it: the end-to-end scenario returns owner_id 1,
\* property_id 1, IBAN score 1.0, amount score 1.0, address score 0.75, name
\* and sender scores 0, the confidence 100 * 232.5 / 385 (about 60.4), which
\* is below 70, and match_status manual_review.
C2_EndToEndManualReview ==
    (EndToEndCall /\ Returned) =>
        /\ result.owner_id = 1
        /\ result.property_id = 1
        /\ IsNone(result.customer_id)
        /\ ResultScores(result) = <<R(1), R(1), R(0), Rat(3, 4), R(0)>>
        /\ result.confidence_score = Rat(100 * 2325, 385 * 10)
        /\ RLt(result.confidence_score, R(70))
        /\ result.match_status = "manual_review"

\* the end-to-end scenario has returned
C2_Witness == EndToEndCall /\ Returned

\* C2, as stated: the end-to-end scenario returns owner_id 1, property_id 1,
\* IBAN score 1.0, amount score 1.0, an address score above 0, a confidence
\* above 70 and match_status matched.
C2_EndToEndMatched ==
    (EndToEndCall /\ Returned) =>
        /\ result.owner_id = 1
        /\ result.property_id = 1
        /\ result.iban_match_score = R(1)
        /\ result.amount_match_score = R(1)
        /\ RGt(result.address_match_score, R(0))
        /\ RGt(result.confidence_score, R(70))
        /\ result.match_status = "matched"

\* 100 * (95 iban + 85 amount + 75 name + 70 address + 60 sender) / 385
WeightedConfidence(s) ==
    RDiv(RMul(R(100),
              RAdd(RAdd(RAdd(RAdd(RMul(R(95), s[1]), RMul(R(85), s[2])),
                             RMul(R(75), s[3])), RMul(R(70), s[4])), RMul(R(60), s[5]))),
         R(385))

\* C3: the confidence_score of every returned result is
\* 100 * (95 iban + 85 amount + 75 name + 70 address + 60 sender) / 385 of the
\* five scores of that result: the divisor is 385 whatever scores are 0.
C3_ConfidenceIsWeightedAverage ==
    Returned => result.confidence_score = WeightedConfidence(ResultScores(result))

\* a result with a positive confidence and criteria of score 0
C3_Witness ==
    /\ Returned
    /\ RGt(result.confidence_score, R(0))
    /\ result.name_match_score = R(0)
    /\ result.sender_match_score = R(0)
    /\ RGt(result.address_match_score, R(0))

\* a score in [0, 1]
InUnit(x) == RLeq(R(0), x) /\ RLeq(x, R(1))

\* C4: every scored candidate has each of its five criterion scores in
\* [0, 1] and its confidence in [0, 100].
C4_ScoresInRange ==
    \A k \in ScoredIndices :
        /\ \A c \in CriterionKeys : InUnit(candidates[k].scores[c])
        /\ RLeq(R(0), candidates[k].total_score)
        /\ RLeq(candidates[k].total_score, R(100))

\* a scored candidate with an amount score inside (0, 1)
C4_Witness ==
    \E k \in ScoredIndices :
        /\ RLt(R(0), candidates[k].scores["amount"])
        /\ RLt(candidates[k].scores["amount"], R(1))
        /\ RLt(candidates[k].total_score, R(100))

\* C5: when no candidate is generated, the result is manual_review with
\* owner_id, property_id and customer_id null, confidence 0, the five scores 0
\* and a message that no matching record was found.
C5_NoCandidateResult ==
    (Returned /\ candidates = <<>>) =>
        /\ result.match_status = "manual_review"
        /\ IsNone(result.owner_id)
        /\ IsNone(result.property_id)
        /\ IsNone(result.customer_id)
        /\ result.confidence_score = R(0)
        /\ ResultScores(result) = <<R(0), R(0), R(0), R(0), R(0)>>
        /\ \E m \in 1..Len(result.messages) :
              result.messages[m] = <<"Eslesen kayit bulunamadi">>

\* a call whose receiver IBAN and receiver name are present and match none
\* of the owners has returned
C5_Witness ==
    /\ Returned /\ candidates = <<>>
    /\ owners # <<>> /\ properties # <<>>
    /\ receiver_iban # <<>> /\ receiver_name # <<>>

\* C6: when candidates exist and the best confidence is below min_confidence,
\* the result is manual_review and carries the ids, the confidence and the
\* five scores of a candidate of greatest confidence, with a message citing
\* the low confidence.
C6_BelowThresholdKeepsBestGuess ==
    (Returned /\ candidates # <<>> /\ RLt(MaxConfidence, min_confidence)) =>
        /\ result.match_status = "manual_review"
        /\ \E k \in 1..Len(candidates) :
              /\ candidates[k].total_score = MaxConfidence
              /\ Carries(result, candidates[k])
        /\ result.messages = << <<"Dusuk guven skoru, manuel inceleme gerekli",
                                  Format1f(MaxConfidence)>> >>

\* a manual_review result that names an owner, a property and a customer
C6_Witness ==
    /\ Returned /\ candidates # <<>>
    /\ result.match_status = "manual_review"
    /\ ~IsNone(result.owner_id)
    /\ ~IsNone(result.property_id)
    /\ ~IsNone(result.customer_id)

\* C7: every returned result has match_status matched or manual_review,
\* never rejected and never the initial pending.
C7_StatusMatchedOrManualReview ==
    Returned => result.match_status \in {"matched", "manual_review"}

\* results of both kinds: this one went through the scoring of two candidates
C7_Witness ==
    /\ Returned
    /\ Len(candidates) >= 2
    /\ result.match_status = "manual_review"
    /\ result.messages[1][1] # "Eslesen kayit bulunamadi"

\* C8: a returned result with a null owner_id is not matched; a matched
\* result names the owner of a candidate of greatest confidence.
C8_NullOwnerNotMatched ==
    Returned =>
        /\ IsNone(result.owner_id) => result.match_status # "matched"
        /\ result.match_status = "matched" =>
              \E k \in 1..Len(candidates) :
                  /\ candidates[k].total_score = MaxConfidence
                  /\ SameId(result.owner_id, candidates[k].owner.id)

\* a result without owner, returned under the lowest threshold
C8_Witness ==
    /\ Returned
    /\ IsNone(result.owner_id)
    /\ owners # <<>>
    /\ min_confidence = Rat(100 * 95, 385)

\* only the IBAN criterion is non-zero, and it is an exact match
IbanOnly(scores) ==
    /\ scores["iban"] = R(1)
    /\ \A c \in CriterionKeys \ {"iban"} : scores[c] = R(0)

\* C9: a candidate whose only non-zero score is an exact IBAN match has the
\* confidence 100 * 95 / 385, between 24 and 25 and below 70; a result with
\* these scores at the default min_confidence of 70 is manual_review.
C9_IbanAloneIsManualReview ==
    /\ \A k \in ScoredIndices :
          IbanOnly(candidates[k].scores) =>
              /\ candidates[k].total_score = Rat(100 * 95, 385)
              /\ RLt(R(24), candidates[k].total_score)
              /\ RLt(candidates[k].total_score, R(25))
              /\ RLt(candidates[k].total_score, R(70))
    /\ (Returned /\ ResultScores(result) = <<R(1), R(0), R(0), R(0), R(0)>>
          /\ min_confidence = R(70)) =>
              /\ result.confidence_score = Rat(100 * 95, 385)
              /\ result.match_status = "manual_review"

\* such a result, returned for an owner without property
C9_Witness ==
    /\ Returned
    /\ min_confidence = R(70)
    /\ ResultScores(result) = <<R(1), R(0), R(0), R(0), R(0)>>
    /\ IsNone(result.property_id)
    /\ result.match_status = "manual_review"

\* none of the keys is in the extracted field record
Absent(keys) == keys \cap DOMAIN ocr_data = {}

\* the score every scored candidate has for criterion c is 0
AllZero(c) == \A k \in ScoredIndices : candidates[k].scores[c] = R(0)

\* the fields that are absent or normalize to nothing score 0
AbsentFieldsScoreZero ==
    /\ (Absent({"receiver_account", "receiver_iban"}) \/ Falsy(receiver_iban))
          => AllZero("iban")
    /\ (Absent({"amount_text", "amount"}) \/ IsNone(amount)) => AllZero("amount")
    /\ (Absent({"receiver_name", "recipient"}) \/ Falsy(receiver_name)) => AllZero("name")
    /\ (Absent({"description"}) \/ Falsy(description)) => AllZero("address")
    /\ (Absent({"sender_name", "sender"}) \/ Falsy(sender_name)) => AllZero("sender")

\* C10: whatever keys of the extracted field record are absent, the call is
\* always at a line from which match_receipt continues, the result it returns
\* has a decided match_status, and a field that is absent, or normalizes to
\* nothing, gives its criterion the score 0 for every candidate.
C10_AbsentFieldsNeverAbort ==
    /\ pc \in {"start", "find", "check", "score", "done", "processed"}
    /\ pc = "score" => candidates # <<>> /\ idx \in 1..(Len(candidates) + 1)
    /\ pc \in {"score", "done"} => AbsentFieldsScoreZero
    /\ Returned => result.match_status # "pending"

\* a call with the receiver name as its only field has scored a candidate
C10_Witness ==
    /\ Returned
    /\ DOMAIN ocr_data = {"receiver_name"}
    /\ candidates # <<>>
    /\ RGt(result.name_match_score, R(0))

(***************************************************************************)
(* Properties of the normalizers and similarity functions called alone.    *)
(***************************************************************************)
\* the call of function f has returned
HelperReturned(f) == fn = f /\ fn_ret # <<>>

\* two optional floats are the same value
SameFloat(a, b) == IF IsNone(a) \/ IsNone(b) THEN IsNone(a) /\ IsNone(b) ELSE a = b

\* a text of digits and separators only
SeparatorText(text) == text # <<>> /\ \A i \in 1..Len(text) : text[i] \in AmountChars

\* the number of characters after the last occurrence of c
Trailing(text, c) == Len(text) - (LastIndex(text, c) + 1)

\* the separator that occurs rightmost in a text with both separators
Rightmost(text) == IF LastIndex(text, ",") > LastIndex(text, ".") THEN "," ELSE "."
OtherSeparator(sep) == IF sep = "," THEN "." ELSE ","

\* the value of a text read with sep as decimal separator and the other
\* separator as thousands separator
ReadWithDecimal(text, sep) == ParseFloat(Replace(Replace(text, <<OtherSeparator(sep)>>, <<>>), <<sep>>, <<".">>))

\* the value of a text read with every sep as thousands separator
ReadWithThousands(text, sep) == ParseFloat(Replace(text, <<sep>>, <<>>))

BothSeparators(text) == Contains(text, ",") /\ Contains(text, ".")
OneSeparator(text) == Contains(text, ",") # Contains(text, ".")
TheSeparator(text) == IF Contains(text, ",") THEN "," ELSE "."

Text45000Turkish == <<"4", "5", ".", "0", "0", "0", ",", "0", "0">>
Text45000English == <<"4", "5", ",", "0", "0", "0", ".", "0", "0">>
Text45000Plain == <<"4", "5", "0", "0", "0", ".", "0", "0">>
TextNotANumber == <<"n", "o", "t", " ", "a", " ", "n", "u", "m", "b", "e", "r">>

\* C11: for every amount text with both "," and ".", whose rightmost
\* separator has at most 2 trailing characters, normalize_amount reads the
\* rightmost separator as the decimal separator and the other one as the
\* thousands separator; '45.000,00' and '45,000.00' both give 45000.0.
C11_RightmostSeparatorIsDecimal ==
    HelperReturned("normalize_amount") =>
        /\ (SeparatorText(fn_args[1]) /\ BothSeparators(fn_args[1])
              /\ Trailing(fn_args[1], Rightmost(fn_args[1])) <= 2)
           => SameFloat(fn_ret[1], ReadWithDecimal(fn_args[1], Rightmost(fn_args[1])))
        /\ fn_args[1] \in {Text45000Turkish, Text45000English}
           => SameFloat(fn_ret[1], R(45000))

\* C12: for every amount text with one separator type only, normalize_amount
\* reads the separator as the decimal separator when it occurs exactly once
\* with at most 2 trailing characters, and otherwise removes every occurrence
\* as a thousands separator; '45000.00' and '45.000,00' give 45000.0, and
\* 'not a number' gives None.
C12_SingleSeparatorRule ==
    HelperReturned("normalize_amount") =>
        /\ (SeparatorText(fn_args[1]) /\ OneSeparator(fn_args[1]))
           => SameFloat(fn_ret[1],
                  IF Count(fn_args[1], TheSeparator(fn_args[1])) = 1
                        /\ Trailing(fn_args[1], TheSeparator(fn_args[1])) <= 2
                  THEN ReadWithDecimal(fn_args[1], TheSeparator(fn_args[1]))
                  ELSE ReadWithThousands(fn_args[1], TheSeparator(fn_args[1])))
        /\ fn_args[1] \in {Text45000Plain, Text45000Turkish}
           => SameFloat(fn_ret[1], R(45000))
        /\ fn_args[1] = TextNotANumber => IsNone(fn_ret[1])

\* a text whose only separator is one comma with two trailing characters has
\* been read with the comma as the decimal separator
C12_Witness ==
    /\ HelperReturned("normalize_amount")
    /\ fn_args[1] = <<"4", ",", "0", "4">>
    /\ SameFloat(fn_ret[1], <<101, 25>>)

\* C13: normalize_iban is idempotent: normalizing the value it returned gives
\* that value again, for texts that mix letters, OCR-confusable letters,
\* spaces and hyphens, of any length including fewer than 4 characters; an
\* absent or empty input gives the empty string.
C13_NormalizeIbanIdempotent ==
    HelperReturned("normalize_iban") =>
        /\ Len(fn_ret) = 2 => fn_ret[2] = fn_ret[1]
        /\ Falsy(fn_args[1]) => fn_ret[1] = <<>>

\* a text with spaces, a hyphen, lower case and confusable letters in the
\* account part has been normalized twice
C13_Witness ==
    /\ HelperReturned("normalize_iban")
    /\ ~Falsy(fn_args[1])
    /\ fn_args[1] = <<"t", "r", "1", "2", " ", "O", "O", "l", "1", "-", "I">>
    /\ fn_ret = << <<"T", "R", "1", "2", "0", "0", "L", "1", "1">>, <<"T", "R", "1", "2", "0", "0", "L", "1", "1">> >>

\* C14: name_similarity(a, b) is 0.6 x levenshtein_similarity(a, b) + 0.4 x
\* jaccard_similarity(a, b) when both names are non-empty and 0.0 when either
\* is empty, two empty names included although both primitives give 1.0 for
\* them; so name_similarity(a, a) is 1.0 for every non-empty a.
C14_NameSimilarityIsHybrid ==
    HelperReturned("name_similarity") =>
        /\ (fn_args[1] # <<>> /\ fn_args[2] # <<>>)
           => fn_ret[1] = RAdd(RMul(Rat(6, 10), levenshtein_similarity(fn_args[1], fn_args[2])),
                               RMul(Rat(4, 10), jaccard_similarity(fn_args[1], fn_args[2])))
        /\ (fn_args[1] = <<>> \/ fn_args[2] = <<>>) => fn_ret[1] = R(0)
        /\ (fn_args[1] = <<>> /\ fn_args[2] = <<>>)
           => /\ levenshtein_similarity(fn_args[1], fn_args[2]) = R(1)
              /\ jaccard_similarity(fn_args[1], fn_args[2]) = R(1)
        /\ (fn_args[1] = fn_args[2] /\ fn_args[1] # <<>>) => fn_ret[1] = R(1)

\* two names that differ in one letter and in case: the edit similarity is
\* 1/3, the bigram similarity 1/3 as well
C14_Witness ==
    /\ HelperReturned("name_similarity")
    /\ fn_args = << <<"a", "b", "a">>, <<"A", "b", "b">> >>
    /\ fn_ret[1] = Rat(1, 3)

\* the classic recursive definition of the edit distance
RECURSIVE ClassicLevenshtein(_, _)
ClassicLevenshtein(a, b) ==
    IF a = <<>> THEN Len(b)
    ELSE IF b = <<>> THEN Len(a)
    ELSE IF Head(a) = Head(b) THEN ClassicLevenshtein(Tail(a), Tail(b))
    ELSE 1 + Min3(ClassicLevenshtein(Tail(a), b),
                  ClassicLevenshtein(a, Tail(b)),
                  ClassicLevenshtein(Tail(a), Tail(b)))

\* C15: levenshtein_distance(a, b) is the classic edit distance, whichever
\* way round the arguments are given, and levenshtein_similarity(a, b) is
\* 1 - distance / max(len a, len b): 1.0 for identical strings, two empty
\* strings included, and 0.0 when exactly one string is empty.
C15_LevenshteinIsClassic ==
    /\ HelperReturned("levenshtein_distance")
       => /\ fn_ret[1] = ClassicLevenshtein(fn_args[1], fn_args[2])
          /\ fn_ret[1] = ClassicLevenshtein(fn_args[2], fn_args[1])
    /\ HelperReturned("levenshtein_similarity")
       => /\ (fn_args[1] # <<>> \/ fn_args[2] # <<>>)
             => fn_ret[1] = RSub(R(1), Rat(ClassicLevenshtein(fn_args[1], fn_args[2]),
                                           Max2(Len(fn_args[1]), Len(fn_args[2]))))
          /\ fn_args[1] = fn_args[2] => fn_ret[1] = R(1)
          /\ ((fn_args[1] = <<>>) # (fn_args[2] = <<>>)) => fn_ret[1] = R(0)

\* the distance of a shorter first string to a longer second one, which
\* needs a substitution and an insertion
C15_Witness ==
    /\ HelperReturned("levenshtein_distance")
    /\ fn_args = << <<"a", "b">>, <<"b", "b", "a">> >>
    /\ fn_ret[1] = 2

\* the Jaccard similarity of two keyword sets that are not both empty
KeywordJaccard(keywords1, keywords2) == Rat(Cardinality(keywords1 \cap keywords2), Cardinality(keywords1 \cup keywords2))

\* address_similarity as stated: the edit similarity of the unprocessed
\* strings as soon as one side has no keyword
FallbackIfEitherEmpty(keywords1, keywords2, address1, address2) ==
    IF keywords1 = {} \/ keywords2 = {} THEN levenshtein_similarity(address1, address2)
    ELSE KeywordJaccard(keywords1, keywords2)

\* address_similarity with the edit similarity only when no side has a keyword
FallbackIfBothEmpty(keywords1, keywords2, address1, address2) ==
    IF keywords1 = {} /\ keywords2 = {} THEN levenshtein_similarity(address1, address2)
    ELSE KeywordJaccard(keywords1, keywords2)

\* C16 as stated: for two non-empty addresses address_similarity is the
\* Jaccard similarity of the two keyword sets, and the edit similarity of the
\* unprocessed strings if either side has no keyword; it is 0.0 if either
\* address is empty.
C16_FallbackIfEitherSideHasNoKeyword ==
    HelperReturned("address_similarity") =>
        IF fn_args[1] = <<>> \/ fn_args[2] = <<>> THEN fn_ret[1] = R(0)
        ELSE fn_ret[1] = FallbackIfEitherEmpty(extract_address_keywords(fn_args[1]),
                             extract_address_keywords(fn_args[2]), fn_args[1], fn_args[2])

\* C16 amended: for two non-empty addresses address_similarity is the edit
\* similarity of the unprocessed strings only when both sides have no
\* keyword, and otherwise the Jaccard similarity of the two keyword sets,
\* which is 0.0 when exactly one side has no keyword; it is 0.0 if either
\* address is empty.
C16_FallbackOnlyIfBothSidesHaveNoKeyword ==
    HelperReturned("address_similarity") =>
        IF fn_args[1] = <<>> \/ fn_args[2] = <<>> THEN fn_ret[1] = R(0)
        ELSE /\ fn_ret[1] = FallbackIfBothEmpty(extract_address_keywords(fn_args[1]),
                                extract_address_keywords(fn_args[2]), fn_args[1], fn_args[2])
             /\ (extract_address_keywords(fn_args[1]) = {}) # (extract_address_keywords(fn_args[2]) = {})
                => fn_ret[1] = R(0)

\* one address with a keyword and one without, whose edit similarity is 2/3:
\* the value returned is 0.0
C16_Witness ==
    /\ HelperReturned("address_similarity")
    /\ fn_args = << <<"A", "A", "A">>, <<"A", "A", " ">> >>
    /\ extract_address_keywords(fn_args[1]) = {<<"A", "A", "A">>}
    /\ extract_address_keywords(fn_args[2]) = {}
    /\ levenshtein_similarity(fn_args[1], fn_args[2]) = Rat(2, 3)
    /\ fn_ret[1] = R(0)

\* the frame of a call, running or not
CallFrame(call) == IF running = call THEN Frame ELSE other
CallInput(call) == CallFrame(call).ocr_data

\* a call that runs together with the other one has returned the result it
\* returned when it ran alone
SameResultAsAlone(call) == CallFrame(call).pc = "done" => ToString(CallFrame(call).result) = ToString(alone[call])

\* C17: no step of match_receipt writes to the owners, customers and
\* properties or to the input record of a call, and a call keeps nothing
\* from the call before it; so when two calls on the same reference data
\* run one step at a time in any order, each returns the result it returned
\* when it ran alone.
C17_ConcurrentCallsAreIndependent ==
    /\ [](Len(alone) = 2 => \A call \in {1, 2} : SameResultAsAlone(call))
    /\ [][/\ UNCHANGED <<owners, customers, properties>>
          /\ \A call \in {1, 2} : CallInput(call)' = CallInput(call)]_vars

\* both calls are in the middle of their scoring loops at once, on different
\* input records, after each ran alone with a different status
C17_Witness ==
    /\ Len(alone) = 2
    /\ alone[1].match_status # alone[2].match_status
    /\ pc = "score" /\ idx = 2
    /\ other.pc = "score" /\ other.idx = 2
    /\ ocr_data # other.ocr_data

(***************************************************************************)
(* Properties of the candidates and of their amount score.                 *)
(***************************************************************************)
\* _find_candidates has returned
Generated == pc \in {"check", "score", "done"}

\* the receiver IBAN is non-empty and equals the normalized IBAN of the owner
IbanRuleApplies(owner) == receiver_iban # <<>> /\ receiver_iban = normalize_iban(owner.iban)

\* the names of the receiver and of the owner are non-empty and similar
SimilarName(owner_name) == receiver_name # <<>> /\ owner_name # <<>> /\ RGeq(name_similarity(receiver_name, owner_name), Rat(7, 10))
NameRuleApplies(owner) == ~IbanRuleApplies(owner) /\ SimilarName(normalize_name(owner.full_name))

\* the positions of the candidates of an owner, and of its properties
CandidatesFor(owner) == {i \in 1..Len(candidates) : candidates[i].owner.id = owner.id}
PropertiesOwnedBy(owner) == {p \in 1..Len(properties) : properties[p].owner_id = owner.id}

\* one candidate per property of the owner, or one candidate without
\* property if the owner has none
ExpandedPerProperty(owner) ==
    IF PropertiesOwnedBy(owner) = {}
    THEN /\ Cardinality(CandidatesFor(owner)) = 1
         /\ \A i \in CandidatesFor(owner) : IsNone(candidates[i].property)
    ELSE /\ Cardinality(CandidatesFor(owner)) = Cardinality(PropertiesOwnedBy(owner))
         /\ \A p \in PropertiesOwnedBy(owner) : \E i \in CandidatesFor(owner) :
               SameId(PropertyIdOf(candidates[i]), properties[p].id)

\* C18: an owner that is not matched by exact IBAN, whose normalized name is
\* non-empty and has a name_similarity of 0.7 or more with the non-empty
\* receiver name, contributes one candidate per property it owns, or a single
\* candidate without property if it owns none; an owner matched by neither
\* rule contributes no candidate.
C18_NameRuleExpandsLikeIbanRule ==
    Generated => \A k \in 1..Len(owners) :
        /\ NameRuleApplies(owners[k]) => ExpandedPerProperty(owners[k])
        /\ (~IbanRuleApplies(owners[k]) /\ ~NameRuleApplies(owners[k]))
           => CandidatesFor(owners[k]) = {}

\* C19: an owner whose normalized IBAN equals the non-empty receiver IBAN
\* contributes exactly max(1, number of its properties) candidates, all with
\* the reason iban_exact, also when its name is similar to the receiver
\* name; no two candidates have the same owner and the same property.
C19_OneRulePerOwner ==
    Generated =>
        /\ \A k \in 1..Len(owners) : IbanRuleApplies(owners[k]) =>
              /\ Cardinality(CandidatesFor(owners[k]))
                    = Max2(1, Cardinality(PropertiesOwnedBy(owners[k])))
              /\ \A i \in CandidatesFor(owners[k]) :
                    /\ Len(candidates[i].match_reason) = 1
                    /\ candidates[i].match_reason[1] = "iban_exact"
        /\ \A i, j \in 1..Len(candidates) :
              (i # j /\ candidates[i].owner.id = candidates[j].owner.id)
              => ~SameId(PropertyIdOf(candidates[i]), PropertyIdOf(candidates[j]))

\* an owner with two properties that both rules select has two candidates
C19_Witness ==
    /\ pc = "check"
    /\ \E k \in 1..Len(owners) :
          /\ IbanRuleApplies(owners[k])
          /\ SimilarName(normalize_name(owners[k].full_name))
          /\ Cardinality(PropertiesOwnedBy(owners[k])) = 2
          /\ Cardinality(CandidatesFor(owners[k])) = 2

\* the amount score of a difference diff under a tolerance tol
BandedScore(diff, tol) ==
    IF RLeq(diff, tol) THEN RSub(R(1), RMul(Rat(2, 10), RDiv(diff, tol)))
    ELSE IF RLeq(diff, RMul(R(2), tol)) THEN Rat(1, 2)
    ELSE R(0)

\* the amount score of an amount a against a price p > 0
PricedScore(a, p) == BandedScore(RAbs(RSub(a, p)), RMul(Rat(5, 100), p))

\* the values at the boundaries of the bands
AtBoundaries(score, diff, tol) ==
    /\ diff = R(0) => score = R(1)
    /\ diff = tol => score = Rat(8, 10)
    /\ diff = RMul(R(2), tol) => score = Rat(1, 2)
    /\ RGt(diff, RMul(R(2), tol)) => score = R(0)

\* the amount score of candidate c is the one stated
AmountScoreAsStated(c) ==
    IF IsNone(amount) \/ IsNone(c.property) THEN c.scores["amount"] = R(0)
    ELSE IF IsNone(c.property.price) THEN c.scores["amount"] = R(0)
    ELSE RGt(c.property.price, R(0)) =>
            /\ c.scores["amount"] = PricedScore(amount, c.property.price)
            /\ AtBoundaries(c.scores["amount"], RAbs(RSub(amount, c.property.price)),
                            RMul(Rat(5, 100), c.property.price))

SameLastFour(a, b) == Len(a) >= 4 /\ Len(b) >= 4 /\ SubSeq(a, Len(a) - 3, Len(a)) = SubSeq(b, Len(b) - 3, Len(b))

\* the IBAN score of two normalized IBANs
StatedIbanScore(receiver, owner_iban) ==
    IF receiver = <<>> \/ owner_iban = <<>> THEN R(0)
    ELSE IF receiver = owner_iban THEN R(1)
    ELSE IF SameLastFour(receiver, owner_iban) THEN Rat(1, 2)
    ELSE R(0)

\* C21: the IBAN score of every candidate is 1.0 if the normalized receiver
\* IBAN equals the normalized owner IBAN, 0.5 if they differ but both have 4
\* characters or more and the same last 4 characters, and 0.0 otherwise; an
\* empty IBAN on either side gives 0.0.
C21_IbanScoreLevels ==
    \A i \in ScoredIndices :
        candidates[i].scores["iban"] = StatedIbanScore(receiver_iban, normalize_iban(candidates[i].owner.iban))

\* a candidate found by name whose IBAN differs from the receiver IBAN and
\* ends in the same 4 characters
C21_Witness ==
    \E i \in ScoredIndices :
        /\ candidates[i].scores["iban"] = Rat(1, 2)
        /\ receiver_iban # normalize_iban(candidates[i].owner.iban)
        /\ candidates[i].match_reason[1] = "name_similarity"

\* the similarity of the sender name to the name of the customer at k
SenderSimilarity(k) == name_similarity(sender_name, normalize_name(customers[k].full_name))

\* the greatest similarity over the customer list, 0.0 for an empty list
SenderSimilarities == {SenderSimilarity(k) : k \in 1..Len(customers)} \cup {R(0)}
MaxSenderSimilarity == CHOOSE s \in SenderSimilarities : \A t \in SenderSimilarities : RLeq(t, s)

\* the customer recorded with candidate c attains the similarity s
RecordedAttains(c, s) == \E k \in 1..Len(customers) : customers[k].id = c.customer_id /\ SenderSimilarity(k) = s

\* C22: within one call the sender score and the recorded customer id are
\* the same for every candidate, whatever its owner and property: the score
\* is the greatest name_similarity of the normalized sender name and a
\* normalized customer name over the whole customer list, and the id
\* recorded is that of a customer with this similarity.
C22_SenderScoreIsMaxOverCustomers ==
    \A i \in ScoredIndices :
        /\ candidates[i].scores["sender"] = MaxSenderSimilarity
        /\ ~IsNone(candidates[i].customer_id) => RecordedAttains(candidates[i], MaxSenderSimilarity)
        /\ \A j \in ScoredIndices :
              /\ candidates[j].scores["sender"] = candidates[i].scores["sender"]
              /\ SameId(candidates[j].customer_id, candidates[i].customer_id)

\* two candidates with different properties are scored against a list whose
\* second customer is more similar to the sender than the first: both
\* record the second customer
C22_Witness ==
    /\ 2 \in ScoredIndices
    /\ PropertyIdOf(candidates[1]) # PropertyIdOf(candidates[2])
    /\ Len(customers) >= 2
    /\ RLt(SenderSimilarity(1), SenderSimilarity(2))
    /\ RLt(R(0), SenderSimilarity(1))
    /\ \A i \in {1, 2} : SameId(candidates[i].customer_id, customers[2].id)

\* the first of the candidates 1..n that has the greatest confidence of them
FirstBest(n) ==
    CHOOSE i \in 1..n :
        /\ \A j \in 1..n : RLeq(candidates[j].total_score, candidates[i].total_score)
        /\ \A j \in 1..(i - 1) : RLt(candidates[j].total_score, candidates[i].total_score)

\* the best match is candidate c
BestIs(c) == ~IsNone(best_match) /\ ToString(best_match) = ToString(c) /\ best_score = c.total_score

\* C23: match_receipt selects a candidate of greatest confidence, and of
\* several with the greatest confidence the one generated first; after every
\* turn of the loop the best candidate is the first of the greatest
\* confidence among those scored, so a later candidate replaces it only with
\* a strictly greater confidence.
C23_FirstOfGreatestConfidenceWins ==
    /\ ScoredIndices # {} => BestIs(candidates[FirstBest(idx - 1)])
    /\ (Returned /\ candidates # <<>>) => Carries(result, candidates[FirstBest(Len(candidates))])

\* two candidates of the same confidence: the first is returned
C23_Witness ==
    /\ Returned
    /\ Len(candidates) = 2
    /\ candidates[1].total_score = candidates[2].total_score
    /\ PropertyIdOf(candidates[1]) # PropertyIdOf(candidates[2])
    /\ SameId(result.property_id, PropertyIdOf(candidates[1]))

\* the least confidence of a candidate generated for a reason
LeastConfidence(reason) == IF reason = "iban_exact" THEN Rat(100 * 95, 385) ELSE Rat(7 * 10 * 75, 385)

\* the message of a call that found no record is among the messages
NoRecordMessage(r) == \E m \in 1..Len(r.messages) : r.messages[m][1] = "Eslesen kayit bulunamadi"

\* C24: every candidate has a confidence above 0: at least 100 x 95 / 385
\* when generated by exact IBAN, at least 100 x 0.7 x 75 / 385 when generated
\* by name similarity; so whenever there is a candidate a best one is
\* selected, the result has an owner_id and a confidence_score above 0, and
\* the message that no record was found is produced only without candidates.
C24_CandidatesHavePositiveConfidence ==
    /\ \A i \in ScoredIndices :
          /\ RGt(candidates[i].total_score, R(0))
          /\ RGeq(candidates[i].total_score, LeastConfidence(candidates[i].match_reason[1]))
    /\ ScoredIndices # {} => ~IsNone(best_match)
    /\ (Returned /\ candidates # <<>>) =>
          /\ ~IsNone(result.owner_id)
          /\ RGt(result.confidence_score, R(0))
          /\ ~NoRecordMessage(result)
    /\ (Returned /\ candidates = <<>>) => NoRecordMessage(result)

\* a candidate generated by name alone, with no IBAN score, is returned for
\* manual review with its owner
C24_Witness ==
    /\ Returned /\ candidates # <<>>
    /\ best_match.match_reason[1] = "name_similarity"
    /\ result.iban_match_score = R(0)
    /\ result.match_status = "manual_review"
    /\ SameId(result.owner_id, best_match.owner.id)

\* the number of criteria with a score other than 0 in a scores dict
NonZero(scores) == Cardinality({c \in CriterionKeys : scores[c] # R(0)})

\* the confidence of the three heaviest criteria at score 1.0
ThreeCriteriaCeiling == Rat(100 * (95 + 85 + 75), 385)

\* C25: with the weights 95, 85, 75, 70, 60 a candidate with at most three
\* criteria other than 0 has a confidence of at most 100 x 255 / 385, which
\* is below 70; so at the default min_confidence a result is "matched" only
\* when at least four of the five criteria of its candidate are not 0.
C25_ThreeCriteriaCannotMatch ==
    /\ RLt(ThreeCriteriaCeiling, R(DefaultMinConfidence))
    /\ \A i \in ScoredIndices :
          NonZero(candidates[i].scores) <= 3 => RLeq(candidates[i].total_score, ThreeCriteriaCeiling)
    /\ (Returned /\ min_confidence = R(DefaultMinConfidence) /\ result.match_status = "matched")
       => NonZero(best_match.scores) >= 4

\* IBAN, amount and name all score 1.0 and nothing else scores: the
\* confidence is the ceiling and the result goes to manual review
C25_Witness ==
    /\ Returned /\ candidates # <<>>
    /\ min_confidence = R(DefaultMinConfidence)
    /\ NonZero(best_match.scores) = 3
    /\ result.confidence_score = ThreeCriteriaCeiling
    /\ result.match_status = "manual_review"

\* the reference property with an id belongs to the owner with an id
BelongsTo(property_id, owner_id) ==
    /\ \E p \in 1..Len(properties) : properties[p].id = property_id
    /\ \A p \in 1..Len(properties) : properties[p].id = property_id => properties[p].owner_id = owner_id

\* C26: in every result with a property_id, the reference property with that
\* id has the owner_id of the result: an owner is never paired with the
\* property of another owner.
C26_PropertyBelongsToOwner ==
    (Returned /\ ~IsNone(result.property_id)) => BelongsTo(result.property_id, result.owner_id)

\* a result with a property, returned while a property of another owner is
\* in the list and that owner is a candidate as well
C26_Witness ==
    /\ Returned /\ ~IsNone(result.property_id)
    /\ \E p \in 1..Len(properties) : properties[p].owner_id # result.owner_id
    /\ \E i \in 1..Len(candidates) : candidates[i].owner.id # result.owner_id

\* the first customer of the list with the greatest similarity to the sender
FirstMostSimilar ==
    CHOOSE k \in 1..Len(customers) :
        /\ SenderSimilarity(k) = MaxSenderSimilarity
        /\ \A j \in 1..(k - 1) : SenderSimilarity(j) # MaxSenderSimilarity

\* C27: a result has a customer_id exactly when there are candidates and its
\* sender_match_score is above 0, however small it is; the customer
\* returned is the first of the list among those with the greatest
\* similarity to the sender name.
C27_CustomerReturnedIffSenderScores ==
    Returned =>
        /\ ~IsNone(result.customer_id) <=> (candidates # <<>> /\ RGt(result.sender_match_score, R(0)))
        /\ ~IsNone(result.customer_id) =>
              /\ result.customer_id = customers[FirstMostSimilar].id
              /\ result.sender_match_score = MaxSenderSimilarity

\* the second and the third customer are equally similar to the sender and
\* more than the first, with a similarity below 0.6: the second is returned
C27_Witness ==
    /\ Returned /\ Len(customers) = 3
    /\ SenderSimilarity(2) = MaxSenderSimilarity
    /\ SenderSimilarity(3) = MaxSenderSimilarity
    /\ RLt(SenderSimilarity(1), MaxSenderSimilarity)
    /\ RLt(MaxSenderSimilarity, Rat(6, 10))
    /\ SameId(result.customer_id, customers[2].id)

\* the entries of the score breakdown of a result
Breakdown(r) == r.matching_details.criteria_scores

\* an entry of the breakdown is the one of candidate c
EntryOf(e, c) == e.owner_id = c.owner.id /\ SameId(e.property_id, PropertyIdOf(c)) /\ e.total_score = c.total_score

\* C28: after a call that scored n >= 1 candidates, criteria_scores holds
\* one entry (owner id, property id, scores, total) for each of the n
\* candidates.
C28_OneBreakdownEntryPerCandidate ==
    (Returned /\ candidates # <<>>) =>
        /\ Cardinality(DOMAIN Breakdown(result)) = Len(candidates)
        /\ \A i \in 1..Len(candidates) :
              \E key \in DOMAIN Breakdown(result) : EntryOf(Breakdown(result)[key], candidates[i])

\* C29: for every amount text that normalize_amount parses to a value above
\* zero, in the '15.000,00' and in the '15000.00' style, the services after
\* the matcher derive the same amount from the same text: the parsed_amount
\* of ReceiptValidator._validate_amount and the transaction.amount of
\* TransactionManager.create_transaction_from_receipt equal
\* normalize_amount(text).
C29_DownstreamAmountsEqualNormalized ==
    (HelperReturned("_validate_amount") \/ HelperReturned("create_transaction_from_receipt"))
        => ((/\ ~IsNone(normalize_amount(fn_args[1]))
             /\ RGt(normalize_amount(fn_args[1]), R(0)))
            => SameFloat(fn_ret[1], normalize_amount(fn_args[1])))

\* process_receipt has decided the status of the receipt
ReceiptProcessed == fn = "process_receipt" /\ fn_ret # <<>>

\* the caller supplied an expected owner other than the matched one
ExpectedOwnerMismatch == ~IsNone(fn_args[2]) /\ ~SameId(fn_args[2], result.owner_id)

\* C30: process_receipt returns the status "approved" only if the match
\* status is "matched", validation reported no error (is_valid, which
\* requires a matched owner that is not null), the match confidence is at
\* least 90 and no expected owner other than the matched owner was supplied;
\* it returns "rejected" only if the match status is "matched" and validation
\* failed; and an expected owner that differs from the matched one always
\* ends in "manual_review", whatever status was decided before.
C30_ProcessedStatus ==
    ReceiptProcessed =>
        /\ fn_ret[1].is_valid => ~IsNone(result.owner_id)
        /\ fn_ret[1].status = "approved" =>
              /\ result.match_status = "matched"
              /\ fn_ret[1].is_valid
              /\ RGeq(result.confidence_score, R(90))
              /\ ~ExpectedOwnerMismatch
        /\ fn_ret[1].status = "rejected" =>
              /\ result.match_status = "matched"
              /\ ~fn_ret[1].is_valid
        /\ ExpectedOwnerMismatch => fn_ret[1].status = "manual_review"

\* a receipt matched with confidence 90 or more and valid, which would be
\* approved, goes to manual review because another owner was expected
C30_Witness ==
    /\ ReceiptProcessed
    /\ result.match_status = "matched"
    /\ fn_ret[1].is_valid
    /\ RGeq(result.confidence_score, R(90))
    /\ ExpectedOwnerMismatch
    /\ fn_ret[1].status = "manual_review"
====
